---- MODULE Spec2Model ----
(***************************************************************************)
(* A model of the gobrowser rendering pipeline: the markup tokenizer, the  *)
(* tree builder, selector specificity and the cascade.                     *)
(*                                                                         *)
(* Strings are sequences of one-character strings; Go's 0-based index i of *)
(* a string s is element i+1 of the sequence.                              *)
(***************************************************************************)
EXTENDS Integers, Sequences, FiniteSets, TLC

VARIABLES
    content,    \* tokenizer.content
    pos,        \* tokenizer.pos
    current,    \* tokenizer.current
    status,     \* "run", or "panic" once a call has panicked
    tokens,     \* the tokens returned by the NextToken calls so far
    froms,      \* froms[k]: tokenizer.pos when the k-th NextToken call began
    nodes,      \* the Node objects allocated so far; a Node is its index
    state,      \* htmlParser.Parse: the parserState
    styleTags,  \* htmlParser.styleTags
    metadata,   \* htmlParser.metadata
    scripts,    \* htmlParser.scripts
    selectorParts,  \* the simple selectors and combinators a selector string is written from
    specificity,    \* cssParser.ParseRule: the specificity map of the rule
    selectorCache,  \* selectorMatcher.selectorCache
    css,        \* CSS.Rules
    computed,   \* computed[n]: the Properties ComputeStyle returned for node n
    layoutCache,    \* layoutEngine.deps.Cache: the LayoutCache
    layoutArgs,     \* the width and height of the last Layout call
    layoutRoot,     \* the layout tree the last Layout call built and laid out
    displayList,    \* the displayList the last Layout call returned
    scrollHeight,   \* layoutEngine.scrollHeight
    query,      \* the x, y and scrollY of the last FindElementAt call
    found,      \* the Node the last FindElementAt call returned
    served,     \* served[i]: what the i-th stylesheet URL leads to
    pc,         \* pc[i]: where the goroutine of the i-th URL is
    cancelled,  \* cancelled[i]: the context of the i-th fetch is done
    outcome,    \* outcome[i]: the (content, err) FetchContent returned to the i-th goroutine
    fetchPool,  \* len(apiHandler.fetchPool): the slots taken
    cssChannel, \* the results in the buffer of cssChannel
    combinedCSS,    \* combinedCSS of fetchExternalStylesheets
    collected,  \* i of the loop of fetchExternalStylesheets: the results received
    built,      \* "document" once Build has returned the document
    tabs,       \* engine.tabs: the Tab objects of the open tabs
    tabObjs,    \* the Tab objects allocated so far
    pages,      \* the page objects allocated so far
    currentIdx, \* tabView.currentIdx
    navs,       \* navs[i]: the i-th toolbar navigation and its Engine.Navigate call
    parsers,    \* the htmlParser objects allocated so far
    htmlParser, \* documentBuilder.htmlParser
    cssParser,  \* documentBuilder.cssParser: the content of the cssParser it points to
    navCount,   \* the navigations started so far
    cssContent, \* the text given to splitRules
    ruleBlocks, \* the blocks splitRules returned
    asked,      \* the selector MatchesSelector is asked about
    matched     \* matched[n]: what MatchesSelector returned for node n

tokVars == <<content, pos, current, status, tokens, froms>>
treeVars == <<nodes, state, styleTags, metadata, scripts>>
cssVars == <<selectorParts, specificity, selectorCache, css, computed>>
layoutVars == <<layoutCache, layoutArgs, layoutRoot, displayList, scrollHeight, query, found>>
fetchVars == <<served, pc, cancelled, outcome, fetchPool, cssChannel, combinedCSS, collected, built>>
browserVars == <<tabs, tabObjs, pages, currentIdx, navs, parsers, htmlParser, cssParser, navCount>>
scanVars == <<cssContent, ruleBlocks, asked, matched>>
vars == <<tokVars, treeVars, cssVars, layoutVars, fetchVars, browserVars, scanVars>>

----------------------------------------------------------------------------
(* Bounds *)

\* The input is a concatenation of at most MaxPieces markup pieces.
MaxPieces == 4
\* NextToken is called at most MaxCalls times on one input.
MaxCalls == 6
\* A document is one of the sample documents or a concatenation of at most
\* MaxTreePieces markup pieces.
MaxTreePieces == 3

----------------------------------------------------------------------------
(* Characters and strings *)

\* The zero rune the tokenizer stores in current at the end of the input.
NUL == ""

\* unicode.IsSpace, on the characters of the model's alphabet
IsSpace(c) == c \in {" ", "\n", "\t"}

\* strings.ToLower, on the characters of the model's alphabet
LowerChar(c) ==
    CASE c = "C" -> "c"
      [] c = "D" -> "d"
      [] c = "E" -> "e"
      [] c = "H" -> "h"
      [] c = "O" -> "o"
      [] c = "P" -> "p"
      [] c = "T" -> "t"
      [] c = "Y" -> "y"
      [] OTHER -> c

ToLower(s) == [i \in 1..Len(s) |-> LowerChar(s[i])]

\* strings.TrimSpace(s) == ""
IsBlank(s) == \A i \in 1..Len(s) : IsSpace(s[i])

\* Go's s[a:b]
Slice(s, a, b) == SubSeq(s, a + 1, b)

RECURSIVE Flatten(_)
Flatten(ss) == IF ss = <<>> THEN <<>> ELSE Head(ss) \o Flatten(Tail(ss))

\* F applied to v: binds a value that is used more than once, so that it is
\* evaluated once
Let(v, F(_)) == F(v)

----------------------------------------------------------------------------
(* Tokens *)

NoAttrs == <<>>

Token(type, tag, attrs, text) ==
    [type |-> type, tag |-> tag, attrs |-> attrs, text |-> text]

TextToken(text) == Token("Text", <<>>, NoAttrs, text)
StartTagToken(tag, attrs) == Token("StartTag", tag, attrs, <<>>)
EndTagToken(tag) == Token("EndTag", tag, NoAttrs, <<>>)
SelfClosingToken(tag, attrs) == Token("SelfClosingTag", tag, attrs, <<>>)
CommentToken(text) == Token("Comment", <<>>, NoAttrs, text)
DoctypeToken(text) == Token("Doctype", <<>>, NoAttrs, text)
EOFToken == Token("EOF", <<>>, NoAttrs, <<>>)
\* a slice out of range: the run-time panic of the Go program
PanicToken == Token("Panic", <<>>, NoAttrs, <<>>)
\* a loop of the tokenizer that makes no progress
HangToken == Token("Hang", <<>>, NoAttrs, <<>>)

\* a map[string]string as a sequence of <<name, value>> without repeated names
RECURSIVE MapGet(_, _)
MapGet(m, k) ==
    IF m = <<>> THEN <<>>
    ELSE IF Head(m)[1] = k THEN Head(m)[2] ELSE MapGet(Tail(m), k)

MapHas(m, k) == \E i \in 1..Len(m) : m[i][1] = k

MapSet(m, k, v) ==
    IF MapHas(m, k)
    THEN [i \in 1..Len(m) |-> IF m[i][1] = k THEN <<k, v>> ELSE m[i]]
    ELSE Append(m, <<k, v>>)

----------------------------------------------------------------------------
(* The tokenizer: a state is [pos, current] over the input c *)

Tz(p, cur) == [pos |-> p, current |-> cur]

NewTokenizer(c) == Tz(0, IF Len(c) > 0 THEN c[1] ELSE NUL)

HasMore(c, t) == t.pos < Len(c)

advance(c, t) ==
    IF t.pos < Len(c) - 1
    THEN Tz(t.pos + 1, c[t.pos + 2])
    ELSE Tz(Len(c), NUL)

RECURSIVE skipWhitespace(_, _)
skipWhitespace(c, t) ==
    IF HasMore(c, t) /\ IsSpace(t.current)
    THEN skipWhitespace(c, advance(c, t))
    ELSE t

RECURSIVE skipToChar(_, _, _)
skipToChar(c, t, char) ==
    IF HasMore(c, t) /\ t.current # char
    THEN skipToChar(c, advance(c, t), char)
    ELSE t

\* "if t.HasMore() { t.advance() }"
advanceIfMore(c, t) == IF HasMore(c, t) THEN advance(c, t) ELSE t

isValidTagChar(t) == ~IsSpace(t.current) /\ t.current # ">" /\ t.current # "/"

\* the tokenizer after the loop of extractTagName
RECURSIVE extractTagName(_, _)
extractTagName(c, t) ==
    IF HasMore(c, t) /\ isValidTagChar(t)
    THEN extractTagName(c, advance(c, t))
    ELSE t

\* the tokenizer after the loop of extractAttributeName
RECURSIVE extractAttributeName(_, _)
extractAttributeName(c, t) ==
    IF HasMore(c, t) /\ ~IsSpace(t.current)
       /\ t.current # "=" /\ t.current # ">" /\ t.current # "/"
    THEN extractAttributeName(c, advance(c, t))
    ELSE t

RECURSIVE scanQuoted(_, _, _)
scanQuoted(c, t, quote) ==
    IF HasMore(c, t) /\ t.current # quote
    THEN scanQuoted(c, advance(c, t), quote)
    ELSE t

extractQuotedValue(c, t) ==
    Let(advance(c, t), LAMBDA t1 :
    Let(scanQuoted(c, t1, t.current), LAMBDA t2 :
        [t |-> advanceIfMore(c, t2), value |-> Slice(c, t1.pos, t2.pos)]))

RECURSIVE scanUnquoted(_, _)
scanUnquoted(c, t) ==
    IF HasMore(c, t) /\ ~IsSpace(t.current)
       /\ t.current # ">" /\ t.current # "/"
    THEN scanUnquoted(c, advance(c, t))
    ELSE t

extractUnquotedValue(c, t) ==
    Let(scanUnquoted(c, t), LAMBDA t1 :
        [t |-> t1, value |-> Slice(c, t.pos, t1.pos)])

extractAttributeValue(c, t) ==
    IF t.current # "=" THEN [t |-> t, value |-> <<>>]
    ELSE Let(skipWhitespace(c, advance(c, t)), LAMBDA t1 :
             IF ~HasMore(c, t1) THEN [t |-> t1, value |-> <<>>]
             ELSE IF t1.current = "\"" \/ t1.current = "'"
                  THEN extractQuotedValue(c, t1)
                  ELSE extractUnquotedValue(c, t1))

\* attribute{}: name <<>> is the empty attribute
parseSingleAttribute(c, t) ==
    Let(skipWhitespace(c, t), LAMBDA t1 :
        IF ~HasMore(c, t1) \/ t1.current = ">" \/ t1.current = "/"
        THEN [t |-> t1, name |-> <<>>, value |-> <<>>]
        ELSE Let(extractAttributeName(c, t1), LAMBDA t2 :
             Let(Slice(c, t1.pos, t2.pos), LAMBDA name :
                 IF name = <<>>
                 THEN [t |-> t2, name |-> <<>>, value |-> <<>>]
                 ELSE Let(extractAttributeValue(c, skipWhitespace(c, t2)), LAMBDA r :
                          [t |-> r.t, name |-> ToLower(name), value |-> r.value]))))

\* the loop of extractAttributes; hang: an iteration left the tokenizer where
\* it was, so the loop of the Go code never ends
RECURSIVE attributesLoop(_, _, _)
attributesLoop(c, t, attrs) ==
    IF HasMore(c, t) /\ t.current # ">" /\ t.current # "/"
    THEN Let(parseSingleAttribute(c, t), LAMBDA a :
         Let(IF a.name # <<>> THEN MapSet(attrs, a.name, a.value) ELSE attrs,
             LAMBDA attrs1 :
                 IF a.t = t THEN [t |-> t, attrs |-> attrs1, hang |-> TRUE]
                 ELSE attributesLoop(c, a.t, attrs1)))
    ELSE [t |-> t, attrs |-> attrs, hang |-> FALSE]

extractAttributes(c, t, isClosing) ==
    IF isClosing THEN [t |-> t, attrs |-> NoAttrs, hang |-> FALSE]
    ELSE attributesLoop(c, t, NoAttrs)

\* strings.ToUpper(s) == "DOCTYPE", on the characters of the model's alphabet
IsDoctypeWord(s) ==
    ToLower(s) = <<"d", "o", "c", "t", "y", "p", "e">>

parseDoctype(c, t) ==
    Let(skipToChar(c, t, ">"), LAMBDA t1 :
        [t |-> advanceIfMore(c, t1), tok |-> DoctypeToken(Slice(c, t.pos, t1.pos))])

\* the loop of parseComment: the tokenizer at the closing "--", or at the
\* place where the loop gave up
RECURSIVE commentLoop(_, _)
commentLoop(c, t) ==
    IF t.pos + 1 < Len(c)
    THEN IF Slice(c, t.pos, t.pos + 2) = <<"-", "-">> THEN t
         ELSE commentLoop(c, advance(c, t))
    ELSE t

\* the tokenizer after "t.pos += 2": pos moves and current stays as it was
skipTwo(t) == Tz(t.pos + 2, t.current)

parseComment(c, t) ==
    Let(commentLoop(c, skipTwo(t)), LAMBDA t1 :
        IF t1.pos + 1 < Len(c)
        THEN [t |-> advanceIfMore(c, skipToChar(c, skipTwo(t1), ">")),
              tok |-> CommentToken(Slice(c, t.pos + 2, t1.pos))]
        ELSE [t |-> Tz(Len(c), t1.current),
              tok |-> CommentToken(Slice(c, t.pos + 2, Len(c)))])

parseCommentOrDoctype(c, t) ==
    Let(advance(c, t), LAMBDA t1 :
        IF ~HasMore(c, t1) THEN [t |-> t1, tok |-> TextToken(<<"<", "!">>)]
        ELSE IF t1.pos + 2 < Len(c) /\ Slice(c, t1.pos, t1.pos + 2) = <<"-", "-">>
             THEN parseComment(c, t1)
        ELSE IF t1.pos + 7 < Len(c) /\ IsDoctypeWord(Slice(c, t1.pos, t1.pos + 7))
             THEN parseDoctype(c, t1)
        ELSE [t |-> advanceIfMore(c, skipToChar(c, t1, ">")),
              tok |-> CommentToken(<<>>)])

\* the text of the token parseTag returns when the tag has no name
emptyTagNameText(c, t) == Slice(c, 0, t.pos + 1)

\* parseTag from the attributes on: t is the tokenizer after the tag name
finishTag(c, t, tagName, isClosing) ==
    Let(extractAttributes(c, skipWhitespace(c, t), isClosing), LAMBDA a :
    Let(a.t.current = "/", LAMBDA selfClosing :
    Let(IF selfClosing THEN advance(c, a.t) ELSE a.t, LAMBDA t4 :
    Let(advanceIfMore(c, IF HasMore(c, t4) /\ t4.current # ">"
                         THEN skipToChar(c, t4, ">") ELSE t4), LAMBDA t6 :
        IF a.hang THEN [t |-> a.t, tok |-> HangToken]
        ELSE IF isClosing THEN [t |-> t6, tok |-> EndTagToken(tagName)]
        ELSE IF selfClosing
             THEN [t |-> t6, tok |-> SelfClosingToken(tagName, a.attrs)]
        ELSE [t |-> t6, tok |-> StartTagToken(tagName, a.attrs)]))))

parseTag(c, t) ==
    Let(advance(c, t), LAMBDA t1 :
        IF t1.current = "!" THEN parseCommentOrDoctype(c, t1)
        ELSE
        Let(t1.current = "/", LAMBDA isClosing :
        Let(IF isClosing THEN advance(c, t1) ELSE t1, LAMBDA t2 :
        Let(extractTagName(c, t2), LAMBDA t3 :
        Let(ToLower(Slice(c, t2.pos, t3.pos)), LAMBDA tagName :
            IF tagName = <<>>
            THEN IF t3.pos + 1 > Len(c)
                 THEN [t |-> t3, tok |-> PanicToken]
                 ELSE [t |-> t3, tok |-> TextToken(emptyTagNameText(c, t3))]
            ELSE finishTag(c, t3, tagName, isClosing))))))

\* the tokenizer after the loop of parseText
RECURSIVE textLoop(_, _)
textLoop(c, t) ==
    IF HasMore(c, t) /\ t.current # "<" THEN textLoop(c, advance(c, t)) ELSE t

parseText(c, t) ==
    Let(textLoop(c, t), LAMBDA t1 :
    Let(Slice(c, t.pos, t1.pos), LAMBDA text :
        IF IsBlank(text) /\ Len(text) > 0
        THEN [t |-> t1, tok |-> TextToken(<<" ">>)]
        ELSE [t |-> t1, tok |-> TextToken(text)]))

NextToken(c, t) ==
    Let(skipWhitespace(c, t), LAMBDA t1 :
        IF ~HasMore(c, t1) THEN [t |-> t1, tok |-> EOFToken]
        ELSE IF t1.current = "<" THEN parseTag(c, t1)
        ELSE parseText(c, t1))

----------------------------------------------------------------------------
(* The tokenizer driven by a caller: one NextToken call per step *)

\* the pieces the inputs are made of
Pieces ==
    { <<"<", "p", ">">>, <<"<", "/", "p", ">">>, <<"H", "i">>, <<" ">>,
      <<"<">>, <<">">>, <<"/">>,
      <<"<", "!", "-", "-", "c", "-", "-", ">">> }

Inputs(n) == { Flatten(ps) : ps \in UNION { [1..k -> Pieces] : k \in 0..n } }

\* no parser has been made
NoTree ==
    /\ nodes = <<>>
    /\ state = <<>>
    /\ styleTags = <<>>
    /\ metadata = <<>>
    /\ scripts = <<>>

\* no stylesheet has been parsed and no style computed
NoCss ==
    /\ selectorParts = <<>>
    /\ specificity = <<>>
    /\ selectorCache = <<>>
    /\ css = <<>>
    /\ computed = <<>>

\* no layout has been done: an empty LayoutCache, no layout tree, the empty
\* display list, no node found
NoLayout ==
    /\ layoutCache = [colorCache |-> <<>>, unitCache |-> <<>>, fontSizeCache |-> <<>>]
    /\ layoutArgs = <<>>
    /\ layoutRoot = [type |-> "Nil"]
    /\ displayList = [commands |-> <<>>, height |-> 0]
    /\ scrollHeight = 0
    /\ query = <<>>
    /\ found = 0

\* no stylesheet is being fetched
NoFetch ==
    /\ served = <<>>
    /\ pc = <<>>
    /\ cancelled = <<>>
    /\ outcome = <<>>
    /\ fetchPool = 0
    /\ cssChannel = <<>>
    /\ combinedCSS = <<>>
    /\ collected = 0
    /\ built = "no"

\* no tab is open and no navigation is in flight
NoBrowser ==
    /\ tabs = <<>>
    /\ tabObjs = <<>>
    /\ pages = <<>>
    /\ currentIdx = 0
    /\ navs = <<>>
    /\ parsers = <<>>
    /\ htmlParser = 0
    /\ cssParser = <<>>
    /\ navCount = 0

\* no text is being split and no selector is being asked about
NoScan ==
    /\ cssContent = <<>>
    /\ ruleBlocks = <<>>
    /\ asked = <<>>
    /\ matched = <<>>

TokInit ==
    /\ content \in Inputs(MaxPieces)
    /\ NoTree
    /\ NoCss
    /\ NoLayout
    /\ NoFetch
    /\ NoBrowser
    /\ NoScan
    /\ pos = NewTokenizer(content).pos
    /\ current = NewTokenizer(content).current
    /\ status = "run"
    /\ tokens = <<>>
    /\ froms = <<>>

\* a caller calls NextToken; a panic ends the program
NextTokenCall ==
    /\ status = "run"
    /\ Len(tokens) < MaxCalls
    /\ \E r \in {NextToken(content, Tz(pos, current))} :
           /\ pos' = r.t.pos
           /\ current' = r.t.current
           /\ tokens' = Append(tokens, r.tok)
           /\ froms' = Append(froms, pos)
           /\ status' = IF r.tok.type \in {"Panic", "Hang"} THEN "panic" ELSE "run"
    /\ UNCHANGED <<content, treeVars>>
    /\ UNCHANGED <<cssVars, layoutVars, fetchVars, browserVars, scanVars>>

TokNext == NextTokenCall

TokSpec == TokInit /\ [][TokNext]_vars

----------------------------------------------------------------------------
(* Claims about the tokenizer, under TokSpec *)

\* tokenizer.pos when the k-th NextToken call returned
PosAfter(k) == IF k < Len(tokens) THEN froms[k + 1] ELSE pos

\* the first position at or after i that holds no whitespace
RECURSIVE SkipSpaces(_, _)
SkipSpaces(c, i) ==
    IF i < Len(c) /\ IsSpace(c[i + 1]) THEN SkipSpaces(c, i + 1) ELSE i

\* where the k-th call found its token: froms[k] with the whitespace skipped
StartOf(k) == SkipSpaces(content, froms[k])

\* the markup of the element <t>text</t>
Element(t, text) == <<"<">> \o t \o <<">">> \o text \o <<"<", "/">> \o t \o <<">">>

\* the character data an element of the inputs can hold: one or two text
\* pieces, not all of them whitespace
ElementTexts ==
    { Flatten(ps) : ps \in { qs \in [1..2 -> {<<"H", "i">>, <<" ">>}] :
                                \E i \in 1..2 : qs[i] # <<" ">> } }

\* what the calls on <t>text</t> return, the first n of them
ExpectedOfElement(t, text, n) ==
    [k \in 1..n |-> CASE k = 1 -> StartTagToken(t, NoAttrs)
                      [] k = 2 -> TextToken(text)
                      [] k = 3 -> EndTagToken(t)
                      [] OTHER -> EOFToken]

\* C1: tokenizing a well-formed element <t>text</t> yields StartTag(t),
\* Text(text), EndTag(t) in that order, and every later NextToken call returns
\* an EndOfInput token.
C1_ElementTokens ==
    \A text \in ElementTexts :
        content = Element(<<"p">>, text)
            => tokens = ExpectedOfElement(<<"p">>, text, Len(tokens))

\* the "<" at position i (0-based) is followed by no tag name: after an
\* optional "/", by whitespace, ">", "/" or the end of the input
NoTagNameAt(c, i) ==
    /\ i < Len(c) /\ c[i + 1] = "<"
    /\ ~(i + 1 < Len(c) /\ c[i + 2] = "!")
    /\ LET j == IF i + 1 < Len(c) /\ c[i + 2] = "/" THEN i + 2 ELSE i + 1
       IN  j >= Len(c) \/ IsSpace(c[j + 1]) \/ c[j + 1] \in {">", "/"}

\* the position after the "<" at i, its optional "/" and the character that
\* ends the empty name
DanglingEnd(c, i) ==
    LET j == IF i + 1 < Len(c) /\ c[i + 2] = "/" THEN i + 2 ELSE i + 1
    IN  IF j + 1 <= Len(c) THEN j + 1 ELSE Len(c)

\* C2: when NextToken meets a "<" that is followed by no tag name, it returns
\* a Text token holding the literal "<" text (here: any text that starts at
\* that "<" and ends no later than the character ending the empty name) and
\* does not fail fatally.
C2_DanglingLtIsText ==
    \A k \in 1..Len(tokens) :
        NoTagNameAt(content, StartOf(k))
            => /\ tokens[k].type = "Text"
               /\ \E e \in (StartOf(k) + 1)..DanglingEnd(content, StartOf(k)) :
                      tokens[k].text = Slice(content, StartOf(k), e)

\* the k-th call began at a run of whitespace that lies between a ">" and
\* a "<"
WhitespaceRunAt(k) ==
    /\ froms[k] > 0 /\ content[froms[k]] = ">"
    /\ froms[k] < Len(content) /\ IsSpace(content[froms[k] + 1])
    /\ StartOf(k) < Len(content) /\ content[StartOf(k) + 1] = "<"

\* C3: a run of text consisting only of whitespace yields exactly one Text
\* token whose text is a single space; the run is never dropped.
C3_WhitespaceRunKept ==
    \A k \in 1..Len(tokens) :
        WhitespaceRunAt(k) => tokens[k] = TextToken(<<" ">>)

\* a comment opens at position i (0-based)
CommentOpensAt(c, i) ==
    i + 4 <= Len(c) /\ Slice(c, i, i + 4) = <<"<", "!", "-", "-">>

\* the positions e >= i+4 where "-->" stands
CommentCloses(c, i) ==
    { e \in (i + 4)..(Len(c) - 3) : Slice(c, e, e + 3) = <<"-", "-", ">">> }

\* the first of them
CommentEnd(c, i) ==
    CHOOSE e \in CommentCloses(c, i) : \A f \in CommentCloses(c, i) : e <= f

\* C4: a comment <!--c--> produces one Comment token with text c and the
\* tokenizer resumes immediately after the closing "-->".
C4_CommentResumesAfterClose ==
    \A k \in 1..Len(tokens) :
        (CommentOpensAt(content, StartOf(k)) /\ CommentCloses(content, StartOf(k)) # {})
            => LET e == CommentEnd(content, StartOf(k))
               IN  /\ tokens[k] = CommentToken(Slice(content, StartOf(k) + 4, e))
                   /\ PosAfter(k) = e + 3

\* below the end of the input, current is the character at pos
CurrentInSync == pos < Len(content) => current = content[pos + 1]

----------------------------------------------------------------------------
(* Nodes: the tree is the sequence of the Node objects allocated so far, a *)
(* Node is its index in it, and 0 is nil                                   *)

Nil == 0

RECURSIVE TrimLeft(_)
TrimLeft(x) == IF x # <<>> /\ IsSpace(Head(x)) THEN TrimLeft(Tail(x)) ELSE x

RECURSIVE TrimRight(_)
TrimRight(x) ==
    IF x # <<>> /\ IsSpace(x[Len(x)]) THEN TrimRight(SubSeq(x, 1, Len(x) - 1)) ELSE x

\* strings.TrimSpace
TrimSpace(x) == TrimRight(TrimLeft(x))

HasPrefix(x, pre) == Len(pre) <= Len(x) /\ SubSeq(x, 1, Len(pre)) = pre

TrimPrefix(x, pre) == IF HasPrefix(x, pre) THEN SubSeq(x, Len(pre) + 1, Len(x)) ELSE x

NewElementNode(tag, attributes) ==
    [type |-> "Element", tag |-> ToLower(tag), attributes |-> attributes,
     content |-> <<>>, children |-> <<>>, parent |-> Nil]

NewTextNode(text) ==
    [type |-> "Text", tag |-> <<>>, attributes |-> NoAttrs,
     content |-> text, children |-> <<>>, parent |-> Nil]

NewCommentNode(text) ==
    [type |-> "Comment", tag |-> <<>>, attributes |-> NoAttrs,
     content |-> text, children |-> <<>>, parent |-> Nil]

\* elementNode.AddChild; AddChild of a text or comment node does nothing
AddChild(ns, parent, child) ==
    IF child = Nil \/ ns[parent].type # "Element" THEN ns
    ELSE [ns EXCEPT ![parent].children = Append(@, child),
                    ![child].parent = parent]

\* "node.GetChildren()[i] = child": the slot is overwritten, nothing else
SetChildSlot(ns, parent, i, child) ==
    [ns EXCEPT ![parent].children = [@ EXCEPT ![i + 1] = child]]

GetID(ns, n) == MapGet(ns[n].attributes, <<"i", "d">>)

\* the dynamic type of the node has every method of NodeSearcher:
\* FindElementsByTag, FindElementsByClass, FindElementByID, GetTextContent.
\* elementNode declares FindElementByTag and no FindElementsByTag.
ImplementsNodeSearcher(ns, n) == ns[n].type \in {"Text", "Comment"}

\* elementNode.FindElementByID and textNode/commentNode.FindElementByID
RECURSIVE FindElementByID(_, _, _)
RECURSIVE findInChildren(_, _, _)
findInChildren(ns, kids, id) ==
    IF kids = <<>> THEN Nil
    ELSE Let(IF ImplementsNodeSearcher(ns, Head(kids))
             THEN FindElementByID(ns, Head(kids), id) ELSE Nil,
             LAMBDA result :
                 IF result # Nil THEN result
                 ELSE findInChildren(ns, Tail(kids), id))

FindElementByID(ns, n, id) ==
    IF ns[n].type # "Element" THEN Nil
    ELSE IF GetID(ns, n) = id THEN n
    ELSE findInChildren(ns, ns[n].children, id)

\* elementNode.GetTextContent and textNode/commentNode.GetTextContent
RECURSIVE GetTextContent(_, _)
RECURSIVE textOfChildren(_, _)
textOfChildren(ns, kids) ==
    IF kids = <<>> THEN <<>>
    ELSE (IF ImplementsNodeSearcher(ns, Head(kids))
          THEN GetTextContent(ns, Head(kids)) ELSE <<>>)
         \o textOfChildren(ns, Tail(kids))

GetTextContent(ns, n) ==
    IF ns[n].type # "Element" THEN ns[n].content
    ELSE textOfChildren(ns, ns[n].children)

----------------------------------------------------------------------------
(* The tree builder *)

TagHtml == <<"h", "t", "m", "l">>
TagHead == <<"h", "e", "a", "d">>
TagBody == <<"b", "o", "d", "y">>
TagStyle == <<"s", "t", "y", "l", "e">>
TagScript == <<"s", "c", "r", "i", "p", "t">>
TagTitle == <<"t", "i", "t", "l", "e">>
TagMeta == <<"m", "e", "t", "a">>

\* htmlSpecialTags.IsSelfClosing
IsSelfClosing(tag) ==
    tag \in { <<"a", "r", "e", "a">>, <<"b", "a", "s", "e">>, <<"b", "r">>,
              <<"c", "o", "l">>, <<"e", "m", "b", "e", "d">>, <<"h", "r">>,
              <<"i", "m", "g">>, <<"i", "n", "p", "u", "t">>,
              <<"l", "i", "n", "k">>, TagMeta, <<"p", "a", "r", "a", "m">>,
              <<"s", "o", "u", "r", "c", "e">>, <<"t", "r", "a", "c", "k">>,
              <<"w", "b", "r">> }

\* the nodes and the parserState after initializeParserState
InitialNodes ==
    LET n0 == <<NewElementNode(TagHtml, NoAttrs), NewElementNode(TagHead, NoAttrs),
                NewElementNode(TagBody, NoAttrs)>>
    IN  AddChild(AddChild(n0, 1, 2), 1, 3)

initializeParserState ==
    [root |-> 1, head |-> 2, body |-> 3, currentParent |-> 3,
     stack |-> <<1, 3>>, inHead |-> FALSE]

isSpecialStructuralTag(tag) == tag = TagHead \/ tag = TagBody

shouldAddToDOM(tag) == tag \notin {TagScript, TagStyle}

\* the attribute map of the node after processSemanticTag
processSemanticTag(tag, attributes) ==
    LET href == <<"h", "r", "e", "f">>
        role == <<"r", "o", "l", "e">>
        type == <<"t", "y", "p", "e">>
        class == <<"c", "l", "a", "s", "s">>
        language == <<"l", "a", "n", "g", "u", "a", "g", "e", "-">>
    IN  CASE tag = <<"a">> ->
               IF MapHas(attributes, href)
               THEN MapSet(MapSet(attributes, href, MapGet(attributes, href)),
                           role, <<"l", "i", "n", "k">>)
               ELSE attributes
          [] tag = <<"n", "a", "v">> ->
               MapSet(attributes, role, <<"n", "a", "v", "i", "g", "a", "t", "i", "o", "n">>)
          [] tag = <<"b", "u", "t", "t", "o", "n">> ->
               LET a1 == MapSet(attributes, role, <<"b", "u", "t", "t", "o", "n">>)
               IN  IF ~MapHas(attributes, type)
                   THEN MapSet(a1, type, <<"b", "u", "t", "t", "o", "n">>)
                   ELSE MapSet(a1, type, MapGet(attributes, type))
          [] tag \in {<<"p", "r", "e">>, <<"c", "o", "d", "e">>} ->
               LET a1 == MapSet(attributes, <<"w", "h", "i", "t", "e", "s", "p", "a", "c", "e">>,
                                <<"p", "r", "e">>)
               IN  IF MapHas(attributes, class) /\ HasPrefix(MapGet(attributes, class), language)
                   THEN MapSet(a1, <<"s", "y", "n", "t", "a", "x", "-", "h", "i", "g", "h", "l", "i", "g", "h", "t">>,
                               TrimPrefix(MapGet(attributes, class), language))
                   ELSE a1
          [] tag \in {<<"u", "l">>, <<"o", "l">>} ->
               MapSet(attributes, role, <<"l", "i", "s", "t">>)
          [] tag = <<"l", "i">> ->
               MapSet(attributes, role, <<"l", "i", "s", "t", "i", "t", "e", "m">>)
          [] OTHER -> attributes

\* the depth of extractTagContent after a token
depthAfter(tok, tag, depth) ==
    IF tok.tag = tag
    THEN CASE tok.type = "StartTag" -> depth + 1
           [] tok.type = "EndTag" -> depth - 1
           [] OTHER -> depth
    ELSE depth

\* the loop of extractTagContent: the tokenizer after it and the text
\* gathered; panic when a NextToken call of the loop did not return
RECURSIVE tagContentLoop(_, _, _, _, _)
tagContentLoop(c, t, tag, depth, acc) ==
    IF HasMore(c, t) /\ depth > 0
    THEN Let(NextToken(c, t), LAMBDA r :
         Let(depthAfter(r.tok, tag, depth), LAMBDA d1 :
             IF r.tok.type \in {"Panic", "Hang"}
             THEN [t |-> r.t, value |-> acc, panic |-> TRUE]
             ELSE tagContentLoop(c, r.t, tag, d1,
                                 IF d1 > 0 /\ r.tok.type = "Text"
                                 THEN acc \o r.tok.text ELSE acc)))
    ELSE [t |-> t, value |-> acc, panic |-> FALSE]

extractTagContent(c, t, tag) ==
    Let(tagContentLoop(c, t, tag, 1, <<>>), LAMBDA r :
        [t |-> r.t, value |-> TrimSpace(r.value), panic |-> r.panic])

\* htmlParser.metadata after extractMetadata of a node with these attributes
extractMetadata(md, attrs) ==
    LET charset == <<"c", "h", "a", "r", "s", "e", "t">>
        name == <<"n", "a", "m", "e">>
        cont == <<"c", "o", "n", "t", "e", "n", "t">>
        equiv == <<"h", "t", "t", "p", "-", "e", "q", "u", "i", "v">>
        property == <<"p", "r", "o", "p", "e", "r", "t", "y">>
        m1 == IF MapHas(attrs, charset)
              THEN MapSet(md, charset, MapGet(attrs, charset)) ELSE md
        m2 == IF MapHas(attrs, name) /\ MapHas(attrs, cont)
              THEN MapSet(m1, MapGet(attrs, name), MapGet(attrs, cont)) ELSE m1
        m3 == IF MapHas(attrs, equiv) /\ MapHas(attrs, cont)
              THEN MapSet(m2, equiv \o <<"-">> \o MapGet(attrs, equiv), MapGet(attrs, cont))
              ELSE m2
    IN  IF MapHas(attrs, property) /\ MapHas(attrs, cont)
        THEN MapSet(m3, MapGet(attrs, property), MapGet(attrs, cont)) ELSE m3

\* ScriptInfo of extractScriptFromToken; its Content is filled by the caller
ScriptInfo(attrs, text) ==
    [Type |-> MapGet(attrs, <<"t", "y", "p", "e">>),
     Src |-> MapGet(attrs, <<"s", "r", "c">>),
     Content |-> text,
     Async |-> MapGet(attrs, <<"a", "s", "y", "n", "c">>) # <<>>,
     Defer |-> MapGet(attrs, <<"d", "e", "f", "e", "r">>) # <<>>]

\* what extractHeadData leaves: the tokenizer and the side channels
HeadData(t, sty, md, scr, panic) ==
    [t |-> t, styleTags |-> sty, metadata |-> md, scripts |-> scr, panic |-> panic]

extractHeadData(c, t, tok, sty, md, scr) ==
    CASE tok.tag = TagStyle ->
           Let(extractTagContent(c, t, TagStyle), LAMBDA r :
               HeadData(r.t, sty \o r.value \o <<"\n">>, md, scr, r.panic))
      [] tok.tag = TagScript ->
           IF MapGet(tok.attrs, <<"s", "r", "c">>) = <<>>
           THEN Let(extractTagContent(c, t, TagScript), LAMBDA r :
                    HeadData(r.t, sty, md,
                             Append(scr, ScriptInfo(tok.attrs, r.value)), r.panic))
           ELSE HeadData(t, sty, md, Append(scr, ScriptInfo(tok.attrs, <<>>)), FALSE)
      [] tok.tag = TagTitle ->
           Let(extractTagContent(c, t, TagTitle), LAMBDA r :
               HeadData(r.t, sty, MapSet(md, TagTitle, r.value), scr, r.panic))
      [] tok.tag = TagMeta ->
           HeadData(t, sty, extractMetadata(md, tok.attrs), scr, FALSE)
      [] OTHER -> HeadData(t, sty, md, scr, FALSE)

\* handleStructuralTag, with updateBodyInDOM
handleStructuralTag(ns, st, tag, node) ==
    IF tag = TagHead
    THEN [nodes |-> SetChildSlot(ns, st.root, 0, node),
          state |-> [st EXCEPT !.head = node, !.currentParent = node,
                               !.stack = <<st.root, node>>, !.inHead = TRUE]]
    ELSE [nodes |-> IF Len(ns[st.root].children) > 1
                    THEN SetChildSlot(ns, st.root, 1, node)
                    ELSE AddChild(ns, st.root, node),
          state |-> [st EXCEPT !.body = node, !.currentParent = node,
                               !.stack = <<st.root, node>>, !.inHead = FALSE]]

addNodeToDOM(ns, st, tag, node) ==
    IF IsSelfClosing(tag)
    THEN [nodes |-> AddChild(ns, st.currentParent, node), state |-> st]
    ELSE [nodes |-> AddChild(ns, st.currentParent, node),
          state |-> [st EXCEPT !.stack = Append(@, node), !.currentParent = node]]

isMatchingElement(ns, n, tag) == ns[n].type = "Element" /\ ns[n].tag = tag

\* the state after "state.stack = state.stack[:i+1]" (i is 0-based)
truncateStack(st, i) == [st EXCEPT !.stack = SubSeq(@, 1, i + 1)]

updateCurrentParent(st) ==
    IF Len(st.stack) > 1
    THEN [st EXCEPT !.currentParent = st.stack[Len(st.stack) - 1]]
    ELSE st

handleSpecialEndTag(st, tag) ==
    IF tag = TagHead
    THEN [st EXCEPT !.inHead = FALSE, !.currentParent = st.body,
                    !.stack = <<st.root, st.body>>]
    ELSE st

\* the loop of handleEndTag, from stack index i (0-based) downwards
RECURSIVE handleEndTag(_, _, _, _)
handleEndTag(ns, st, tag, i) ==
    IF i < 0 THEN st
    ELSE IF isMatchingElement(ns, st.stack[i + 1], tag)
         THEN handleSpecialEndTag(updateCurrentParent(truncateStack(st, i)), tag)
         ELSE handleEndTag(ns, st, tag, i - 1)

----------------------------------------------------------------------------
(* Parse: one step per iteration of its loop *)

Open(tag) == <<"<">> \o tag \o <<">">>
Close(tag) == <<"<", "/">> \o tag \o <<">">>

TagDiv == <<"d", "i", "v">>
TagSpan == <<"s", "p", "a", "n">>
TagP == <<"p">>

\* <div id="a">
DivWithIdA == <<"<", "d", "i", "v", " ", "i", "d", "=", "\"", "a", "\"", ">">>

\* the document of the tree builder's example
ExampleDocument ==
    Flatten(<<Open(TagHtml), Open(TagBody), DivWithIdA, Open(TagSpan), <<"x">>,
              Close(TagSpan), Close(TagDiv), Close(TagBody), Close(TagHtml)>>)

\* <div><p>a</p><p>b</p>c</div>
SiblingsDocument ==
    Flatten(<<Open(TagDiv), Open(TagP), <<"a">>, Close(TagP), Open(TagP), <<"b">>,
              Close(TagP), <<"c">>, Close(TagDiv)>>)

\* documents that reach the remaining branches of the builder
SampleDocuments ==
    { ExampleDocument, SiblingsDocument,
      Flatten(<<<<"<", "!", "D", "O", "C", "T", "Y", "P", "E", " ", "h", "t", "m", "l", ">">>,
                Open(TagHead), Open(TagTitle), <<"T">>, Close(TagTitle),
                <<"<", "m", "e", "t", "a", " ", "c", "h", "a", "r", "s", "e", "t", "=", "u", "/", ">">>,
                Open(TagScript), <<"s">>, Close(TagScript), Close(TagHead),
                Open(TagBody), Open(TagP), <<"a">>, Close(TagP), Close(TagBody)>>),
      Flatten(<<Open(TagBody), Open(TagScript), <<"s">>, Close(TagScript),
                Open(TagTitle), <<"T">>, Close(TagTitle), Close(TagBody)>>) }

TreePieces ==
    { Open(TagDiv), Close(TagDiv), Open(TagP), Close(TagP), <<"a">>, <<" ">>,
      Open(TagHead), Close(TagHead), Open(TagBody), Open(TagStyle), Close(TagStyle),
      <<"<", "b", "r", "/", ">">>, <<"<", "!", "-", "-", "c", "-", "-", ">">>, <<"<">> }

\* a style, script or title element holding the text "r", at the start of
\* the document, in an explicit head or in an explicit body
RawTextDocument(pre, tag) == pre \o Open(tag) \o <<"r">> \o Close(tag)

RawTextDocuments ==
    { RawTextDocument(pre, tag) : pre \in {<<>>, Open(TagHead), Open(TagBody)},
                                  tag \in {TagStyle, TagScript, TagTitle} }

TreeInputs(n) ==
    SampleDocuments \cup RawTextDocuments
    \cup { Flatten(ps) : ps \in UNION { [1..k -> TreePieces] : k \in 1..n } }

TreeInit ==
    /\ content \in TreeInputs(MaxTreePieces)
    /\ pos = NewTokenizer(content).pos
    /\ current = NewTokenizer(content).current
    /\ status = "run"
    /\ tokens = <<>>
    /\ froms = <<>>
    /\ nodes = InitialNodes
    /\ state = initializeParserState
    /\ styleTags = <<>>
    /\ metadata = <<>>
    /\ scripts = <<>>
    /\ NoCss
    /\ NoLayout
    /\ NoFetch
    /\ NoBrowser
    /\ NoScan

\* the loop of Parse is at its head and the tokenizer has more input
AtLoop == status = "run" /\ HasMore(content, Tz(pos, current))

\* the token of this iteration, with the tokenizer after it
Fetched == {NextToken(content, Tz(pos, current))}

TokenizerAt(t) == pos' = t.pos /\ current' = t.current

\* handleStartTag of a head or body tag
StructuralStartTag(tok, t) ==
    \E r \in {handleStructuralTag(Append(nodes, NewElementNode(tok.tag, tok.attrs)),
                                  state, tok.tag, Len(nodes) + 1)} :
        /\ nodes' = r.nodes
        /\ state' = r.state
        /\ TokenizerAt(t)
        /\ UNCHANGED <<status, styleTags, metadata, scripts>>

\* handleStartTag of any other tag
OrdinaryStartTag(tok, t) ==
    \E attrs \in {processSemanticTag(tok.tag, tok.attrs)} :
    \E h \in {IF state.inHead
              THEN extractHeadData(content, t, [tok EXCEPT !.attrs = attrs],
                                   styleTags, metadata, scripts)
              ELSE HeadData(t, styleTags, metadata, scripts, FALSE)} :
    \E r \in {IF shouldAddToDOM(tok.tag) /\ ~h.panic
              THEN addNodeToDOM(Append(nodes, NewElementNode(tok.tag, attrs)),
                                state, tok.tag, Len(nodes) + 1)
              ELSE [nodes |-> Append(nodes, NewElementNode(tok.tag, attrs)),
                    state |-> state]} :
        /\ nodes' = r.nodes
        /\ state' = r.state
        /\ TokenizerAt(h.t)
        /\ styleTags' = h.styleTags
        /\ metadata' = h.metadata
        /\ scripts' = h.scripts
        /\ status' = IF h.panic THEN "panic" ELSE "run"

\* processToken of a StartTag: handleStartTag
HandleStartTag ==
    /\ AtLoop
    /\ \E f \in Fetched :
           /\ f.tok.type = "StartTag"
           /\ IF isSpecialStructuralTag(f.tok.tag)
              THEN StructuralStartTag(f.tok, f.t)
              ELSE OrdinaryStartTag(f.tok, f.t)
    /\ UNCHANGED <<content, tokens, froms>>
    /\ UNCHANGED <<cssVars, layoutVars, fetchVars, browserVars, scanVars>>

\* processToken of a SelfClosingTag: handleSelfClosingTag
HandleSelfClosingTag ==
    /\ AtLoop
    /\ \E f \in Fetched :
           /\ f.tok.type = "SelfClosingTag"
           /\ nodes' = AddChild(Append(nodes, NewElementNode(f.tok.tag, f.tok.attrs)),
                                state.currentParent, Len(nodes) + 1)
           /\ metadata' = IF state.inHead /\ f.tok.tag = TagMeta
                          THEN extractMetadata(metadata, f.tok.attrs) ELSE metadata
           /\ TokenizerAt(f.t)
    /\ UNCHANGED <<content, status, tokens, froms, state, styleTags, scripts>>
    /\ UNCHANGED <<cssVars, layoutVars, fetchVars, browserVars, scanVars>>

\* processToken of an EndTag: handleEndTag
HandleEndTag ==
    /\ AtLoop
    /\ \E f \in Fetched :
           /\ f.tok.type = "EndTag"
           /\ state' = handleEndTag(nodes, state, f.tok.tag, Len(state.stack) - 1)
           /\ TokenizerAt(f.t)
    /\ UNCHANGED <<content, status, tokens, froms, nodes, styleTags, metadata, scripts>>
    /\ UNCHANGED <<cssVars, layoutVars, fetchVars, browserVars, scanVars>>

\* processToken of a Text token: handleTextToken
HandleTextToken ==
    /\ AtLoop
    /\ \E f \in Fetched :
           /\ f.tok.type = "Text"
           /\ nodes' = IF TrimSpace(f.tok.text) # <<>>
                       THEN AddChild(Append(nodes, NewTextNode(f.tok.text)),
                                     state.currentParent, Len(nodes) + 1)
                       ELSE nodes
           /\ TokenizerAt(f.t)
    /\ UNCHANGED <<content, status, tokens, froms, state, styleTags, metadata, scripts>>
    /\ UNCHANGED <<cssVars, layoutVars, fetchVars, browserVars, scanVars>>

\* processToken of a Comment token: handleCommentToken
HandleCommentToken ==
    /\ AtLoop
    /\ \E f \in Fetched :
           /\ f.tok.type = "Comment"
           /\ nodes' = AddChild(Append(nodes, NewCommentNode(f.tok.text)),
                                state.currentParent, Len(nodes) + 1)
           /\ TokenizerAt(f.t)
    /\ UNCHANGED <<content, status, tokens, froms, state, styleTags, metadata, scripts>>
    /\ UNCHANGED <<cssVars, layoutVars, fetchVars, browserVars, scanVars>>

\* processToken of a Doctype token: no case of the switch
HandleDoctypeToken ==
    /\ AtLoop
    /\ \E f \in Fetched :
           /\ f.tok.type = "Doctype"
           /\ TokenizerAt(f.t)
    /\ UNCHANGED <<content, status, tokens, froms, treeVars>>
    /\ UNCHANGED <<cssVars, layoutVars, fetchVars, browserVars, scanVars>>

\* the loop ends: no more input, or the token is EndOfInput
ParseReturn ==
    /\ status = "run"
    /\ IF HasMore(content, Tz(pos, current))
       THEN \E f \in Fetched : f.tok.type = "EOF" /\ TokenizerAt(f.t)
       ELSE UNCHANGED <<pos, current>>
    /\ status' = "done"
    /\ UNCHANGED <<content, tokens, froms, treeVars>>
    /\ UNCHANGED <<cssVars, layoutVars, fetchVars, browserVars, scanVars>>

\* NextToken panics and nothing recovers
ParsePanic ==
    /\ AtLoop
    /\ \E f \in Fetched :
           /\ f.tok.type \in {"Panic", "Hang"}
           /\ TokenizerAt(f.t)
    /\ status' = "panic"
    /\ UNCHANGED <<content, tokens, froms, treeVars>>
    /\ UNCHANGED <<cssVars, layoutVars, fetchVars, browserVars, scanVars>>

TreeNext ==
    \/ HandleStartTag
    \/ HandleSelfClosingTag
    \/ HandleEndTag
    \/ HandleTextToken
    \/ HandleCommentToken
    \/ HandleDoctypeToken
    \/ ParseReturn
    \/ ParsePanic

TreeSpec == TreeInit /\ [][TreeNext]_vars

----------------------------------------------------------------------------
(* Claims about the tree builder, under TreeSpec *)

Children(n) == { nodes[n].children[i] : i \in 1..Len(nodes[n].children) }

\* the nodes at most d child edges below n
RECURSIVE Below(_, _)
Below(n, d) ==
    IF d = 0 THEN {n}
    ELSE {n} \cup UNION { Below(k, d - 1) : k \in Children(n) }

\* the nodes of the tree Parse returns
InTree == Below(state.root, Len(nodes))

\* the nodes whose child list holds n
Containers(n) == { p \in 1..Len(nodes) : n \in Children(p) }

\* C5: building the example document yields a root with exactly one head
\* child and one body child; the node found by id "a" is the div element, and
\* the text content of its descendants is "x".
C5_ExampleDocumentTree ==
    (content = ExampleDocument /\ status = "done")
        => /\ Cardinality({k \in Children(state.root) : nodes[k].tag = TagHead}) = 1
           /\ Cardinality({k \in Children(state.root) : nodes[k].tag = TagBody}) = 1
           /\ Len(nodes[state.root].children) = 2
           /\ FindElementByID(nodes, state.root, <<"a">>) # Nil
           /\ nodes[FindElementByID(nodes, state.root, <<"a">>)].tag = TagDiv
           /\ GetTextContent(nodes, FindElementByID(nodes, state.root, <<"a">>)) = <<"x">>

\* C6: after Parse every node of the tree other than the root has exactly one
\* parent: its GetParent() is the unique node whose child list contains it.
C6_SingleParent ==
    status = "done"
        => \A n \in InTree \ {state.root} :
               /\ Cardinality(Containers(n)) = 1
               /\ nodes[n].parent \in Containers(n)

\* the open elements an end tag matches, as indexes of the stack
EndTagMatches(tag) ==
    { i \in 1..Len(state.stack) : isMatchingElement(nodes, state.stack[i], tag) }

\* the first of them from the top of the stack
MatchedElement(tag) ==
    state.stack[CHOOSE i \in EndTagMatches(tag) : \A j \in EndTagMatches(tag) : j <= i]

\* the node whose child list holds n, Nil when there is none
ContainerOf(n) == IF Containers(n) = {} THEN Nil ELSE CHOOSE p \in Containers(n) : TRUE

\* C7: an EndTag that matches the open element E leaves E's parent as the
\* insertion parent, so that what follows is attached as a sibling of E.
C7_EndTagRestoresParent ==
    [][\A f \in Fetched :
          (/\ AtLoop
           /\ f.tok.type = "EndTag"
           /\ f.tok.tag # TagHead
           /\ EndTagMatches(f.tok.tag) # {}
           /\ MatchedElement(f.tok.tag) # state.root)
              => state'.currentParent = ContainerOf(MatchedElement(f.tok.tag))]_vars

\* the side channel of the tag holds the text "r"
InSideChannel(tag) ==
    CASE tag = TagStyle -> styleTags = <<"r", "\n">>
      [] tag = TagScript -> Len(scripts) = 1 /\ scripts[1].Content = <<"r">>
      [] tag = TagTitle -> MapGet(metadata, TagTitle) = <<"r">>

\* C8: the raw text of a style, script or title element, in the head or in the
\* body, is recorded in the side channel of the tag and is no Text node of the
\* tree.
C8_RawTextInSideChannel ==
    \A pre \in {<<>>, Open(TagHead), Open(TagBody)} :
    \A tag \in {TagStyle, TagScript, TagTitle} :
        (content = RawTextDocument(pre, tag) /\ status = "done")
            => /\ InSideChannel(tag)
               /\ \A n \in InTree : ~(nodes[n].type = "Text" /\ nodes[n].content = <<"r">>)

----------------------------------------------------------------------------
(* Selector specificity: cssParser.calculateSpecificity and                *)
(* selectorMatcher.CalculateSpecificity                                    *)

\* A selector is written from at most MaxSelectorParts parts.
MaxSelectorParts == 3

Letters ==
    {"a", "b", "c", "d", "e", "f", "g", "h", "i", "j", "k", "l", "m", "n", "o",
     "p", "q", "r", "s", "t", "u", "v", "w", "x", "y", "z",
     "C", "D", "E", "H", "O", "P", "T", "Y"}

Digits == {"0", "1", "2", "3", "4", "5", "6", "7", "8", "9"}

\* the word characters of \b
IsWordChar(c) == c \in Letters \cup Digits \cup {"_"}

\* the character classes of the regular expressions
InClass(cls, c) ==
    CASE cls = "name" -> ~IsSpace(c) /\ c \notin {"#", ".", "[", ":"}    \* [^\s#.\[:]
      [] cls = "notClose" -> c # "]"                                     \* [^\]]
      [] cls = "pseudo" -> ~IsSpace(c) /\ c \notin {":", "["}            \* [^:\s\[]
      [] cls = "alnum" -> c \in Letters \cup Digits                      \* [a-zA-Z0-9]

\* the index after the longest run of characters of the class from index i
RECURSIVE RunEnd(_, _, _)
RunEnd(s, i, cls) ==
    IF i <= Len(s) /\ InClass(cls, s[i]) THEN RunEnd(s, i + 1, cls) ELSE i

CharAt(s, i) == IF i >= 1 /\ i <= Len(s) THEN s[i] ELSE NUL

\* the index after the match of the regular expression at index i, 0 when
\* there is no match at i
MatchEnd(re, s, i) ==
    CASE re = "id" ->                        \* #[^\s#.\[:]+
           IF s[i] = "#" /\ RunEnd(s, i + 1, "name") > i + 1
           THEN RunEnd(s, i + 1, "name") ELSE 0
      [] re = "class" ->                     \* \.[^\s#.\[:]+
           IF s[i] = "." /\ RunEnd(s, i + 1, "name") > i + 1
           THEN RunEnd(s, i + 1, "name") ELSE 0
      [] re = "attribute" ->                 \* \[[^\]]*\]
           IF s[i] = "[" /\ RunEnd(s, i + 1, "notClose") <= Len(s)
           THEN RunEnd(s, i + 1, "notClose") + 1 ELSE 0
      [] re = "pseudoElement" ->             \* ::[^:\s\[]+
           IF s[i] = ":" /\ CharAt(s, i + 1) = ":" /\ RunEnd(s, i + 2, "pseudo") > i + 2
           THEN RunEnd(s, i + 2, "pseudo") ELSE 0
      [] re = "pseudoClass" ->               \* :[^:\s\[]+
           IF s[i] = ":" /\ RunEnd(s, i + 1, "pseudo") > i + 1
           THEN RunEnd(s, i + 1, "pseudo") ELSE 0
      [] re = "element" ->                   \* \b[a-zA-Z][a-zA-Z0-9]*\b
           IF /\ s[i] \in Letters
              /\ ~IsWordChar(CharAt(s, i - 1))
              /\ ~IsWordChar(CharAt(s, RunEnd(s, i + 1, "alnum")))
           THEN RunEnd(s, i + 1, "alnum") ELSE 0

\* regexp.FindAllString(s, -1), from index i
RECURSIVE FindAllFrom(_, _, _)
FindAllFrom(re, s, i) ==
    IF i > Len(s) THEN <<>>
    ELSE IF MatchEnd(re, s, i) > 0
         THEN <<SubSeq(s, i, MatchEnd(re, s, i) - 1)>> \o FindAllFrom(re, s, MatchEnd(re, s, i))
         ELSE FindAllFrom(re, s, i + 1)

FindAllString(re, s) == FindAllFrom(re, s, 1)

\* regexp.ReplaceAllString(s, repl), from index i
RECURSIVE ReplaceAllFrom(_, _, _, _)
ReplaceAllFrom(re, s, i, repl) ==
    IF i > Len(s) THEN <<>>
    ELSE IF MatchEnd(re, s, i) > 0
         THEN repl \o ReplaceAllFrom(re, s, MatchEnd(re, s, i), repl)
         ELSE <<s[i]>> \o ReplaceAllFrom(re, s, i + 1, repl)

ReplaceAllString(re, s, repl) == ReplaceAllFrom(re, s, 1, repl)

\* strings.Count(s, c) for a one-character c
Count(s, c) == Cardinality({i \in 1..Len(s) : s[i] = c})

isCSSKeyword(word) ==
    ToLower(word) \in { <<"a", "n", "d">>, <<"n", "o", "t">>, <<"o", "n", "l", "y">>,
                        <<"a", "l", "l">>, <<"s", "c", "r", "e", "e", "n">>,
                        <<"p", "r", "i", "n", "t">> }

\* the selector without its id, class, attribute and pseudo parts
cleanSelector(selector) ==
    ReplaceAllString("pseudoClass",
      ReplaceAllString("pseudoElement",
        ReplaceAllString("attribute",
          ReplaceAllString("class",
            ReplaceAllString("id", selector, <<>>), <<>>), <<>>), <<" ">>), <<>>)

\* the element names of the selector that are no keyword
elementCount(selector) ==
    Let(FindAllString("element", cleanSelector(selector)), LAMBDA ms :
        Cardinality({k \in 1..Len(ms) : ~isCSSKeyword(ms[k])}))

\* cssParser.countPseudoClasses, the loop from index i (0-based)
RECURSIVE parserCountPseudoClasses(_, _)
parserCountPseudoClasses(selector, i) ==
    IF i >= Len(selector) THEN 0
    ELSE IF selector[i + 1] = ":"
         THEN IF i + 1 < Len(selector) /\ selector[i + 2] = ":"
              THEN parserCountPseudoClasses(selector, i + 2)
              ELSE 1 + parserCountPseudoClasses(selector, i + 1)
         ELSE parserCountPseudoClasses(selector, i + 1)

\* cssParser.calculateSpecificity
calculateSpecificity(sel) ==
    Let(TrimSpace(sel), LAMBDA selector :
        Count(selector, "#") * 100
        + (Count(selector, ".") + Count(selector, "[")
           + parserCountPseudoClasses(selector, 0)) * 10
        + elementCount(selector))

\* selectorMatcher.countPseudoClasses, the loop from index i (0-based)
RECURSIVE countPseudoClasses(_, _)
countPseudoClasses(selector, i) ==
    IF i >= Len(selector) THEN 0
    ELSE IF i + 1 < Len(selector) /\ selector[i + 2] = ":"
         THEN countPseudoClasses(selector, i + 2)
         ELSE 1 + countPseudoClasses(selector, i + 1)

\* selectorMatcher.calculateSelectorSpecificity
calculateSelectorSpecificity(sel) ==
    Let(TrimSpace(sel), LAMBDA selector :
        Len(FindAllString("id", selector)) * 100
        + (Len(FindAllString("class", selector))
           + Len(FindAllString("attribute", selector))
           + countPseudoClasses(selector, 0)) * 10
        + elementCount(selector))

\* a map[string]int as a function on the set of its keys
IntMapSet(m, k, v) == [x \in DOMAIN m \cup {k} |-> IF x = k THEN v ELSE m[x]]

\* selectorMatcher.CalculateSpecificity: the cache after the call
cacheAfter(cache, selector) ==
    IF selector \in DOMAIN cache THEN cache
    ELSE IntMapSet(cache, selector, calculateSelectorSpecificity(selector))

\* selectorMatcher.CalculateSpecificity: the value returned
CalculateSpecificity(cache, selector) == cacheAfter(cache, selector)[selector]

----------------------------------------------------------------------------
(* SpecificitySpec: the two specificity computations on one selector *)

Part(kind, text) == [kind |-> kind, text |-> text]

SelectorPartSet ==
    { Part("type", <<"p">>), Part("type", <<"d", "i", "v">>),
      Part("id", <<"#", "b">>), Part("class", <<".", "a">>),
      Part("attribute", <<"[", "x", "]">>),
      Part("pseudo", <<":", "h", "o", "v", "e", "r">>),
      Part("combinator", <<" ">>) }

\* a type part opens a compound selector
WellFormed(ps) ==
    /\ \E k \in 1..Len(ps) : ps[k].kind # "combinator"
    /\ \A k \in 1..Len(ps) :
           ps[k].kind = "type" => (k = 1 \/ ps[k - 1].kind = "combinator")

SelectorInputs(n) ==
    { ps \in UNION { [1..k -> SelectorPartSet] : k \in 1..n } : WellFormed(ps) }

\* the selector string
SelectorText(ps) == Flatten([k \in 1..Len(ps) |-> ps[k].text])

SpecificityInit ==
    /\ selectorParts \in SelectorInputs(MaxSelectorParts)
    /\ specificity = <<>>
    /\ selectorCache = <<>>
    /\ css = <<>>
    /\ computed = <<>>
    /\ content = <<>>
    /\ pos = 0
    /\ current = NUL
    /\ status = "css"
    /\ NoLayout
    /\ NoFetch
    /\ NoBrowser
    /\ NoScan
    /\ tokens = <<>>
    /\ froms = <<>>
    /\ NoTree

\* cssParser.ParseRule fills the specificity map of the rule
ParseRuleSpecificity ==
    /\ status = "css"
    /\ SelectorText(selectorParts) \notin DOMAIN specificity
    /\ specificity' = IntMapSet(specificity, SelectorText(selectorParts),
                                calculateSpecificity(SelectorText(selectorParts)))
    /\ UNCHANGED <<tokVars, treeVars, selectorParts, selectorCache, css, computed, layoutVars, fetchVars, browserVars, scanVars>>

\* the cascade asks the matcher for the specificity of the selector
CalculateSpecificityCall ==
    /\ status = "css"
    /\ selectorCache' = cacheAfter(selectorCache, SelectorText(selectorParts))
    /\ UNCHANGED <<tokVars, treeVars, selectorParts, specificity, css, computed, layoutVars, fetchVars, browserVars, scanVars>>

SpecificityNext == ParseRuleSpecificity \/ CalculateSpecificityCall

SpecificitySpec == SpecificityInit /\ [][SpecificityNext]_vars

PartCount(ps, kinds) == Cardinality({k \in 1..Len(ps) : ps[k].kind \in kinds})

\* 100 x ids + 10 x (classes, attributes, pseudo-classes) + 1 x types
ExpectedSpecificity(ps) ==
    100 * PartCount(ps, {"id"})
    + 10 * PartCount(ps, {"class", "attribute", "pseudo"})
    + PartCount(ps, {"type"})

\* C9: the specificity of a selector is 100 x (id parts) + 10 x (class,
\* attribute and pseudo-class parts) + 1 x (type parts), in the stylesheet
\* parser and in the selector matcher of the cascade.
C9_Specificity ==
    /\ \A sel \in DOMAIN specificity :
           specificity[sel] = ExpectedSpecificity(selectorParts)
    /\ \A sel \in DOMAIN selectorCache :
           selectorCache[sel] = ExpectedSpecificity(selectorParts)

\* the parser's half of C9
ParserSpecificityAsExpected ==
    \A sel \in DOMAIN specificity : specificity[sel] = ExpectedSpecificity(selectorParts)

----------------------------------------------------------------------------
(* Strings and numbers of the cascade *)

HasSuffix(x, suf) ==
    Len(suf) <= Len(x) /\ SubSeq(x, Len(x) - Len(suf) + 1, Len(x)) = suf

TrimSuffix(x, suf) == IF HasSuffix(x, suf) THEN SubSeq(x, 1, Len(x) - Len(suf)) ELSE x

\* strings.Contains(s, c) for a one-character c
Contains(s, c) == \E i \in 1..Len(s) : s[i] = c

\* strings.Index(s, c) for a one-character c
Index(s, c) ==
    IF Contains(s, c)
    THEN (CHOOSE i \in 1..Len(s) : s[i] = c /\ \A j \in 1..(i - 1) : s[j] # c) - 1
    ELSE -1

\* strings.Split(s, c) for a one-character c
RECURSIVE Split(_, _)
Split(s, c) ==
    IF ~Contains(s, c) THEN <<s>>
    ELSE <<Slice(s, 0, Index(s, c))>> \o Split(Slice(s, Index(s, c) + 1, Len(s)), c)

\* the index of the first white space of s, Len(s) + 1 when there is none
RECURSIVE FirstSpace(_, _)
FirstSpace(s, i) == IF i <= Len(s) /\ ~IsSpace(s[i]) THEN FirstSpace(s, i + 1) ELSE i

\* strings.Fields
RECURSIVE Fields(_)
Fields(s) ==
    Let(TrimLeft(s), LAMBDA t :
        IF t = <<>> THEN <<>>
        ELSE <<SubSeq(t, 1, FirstSpace(t, 1) - 1)>>
             \o Fields(SubSeq(t, FirstSpace(t, 1), Len(t))))

\* strings.EqualFold
EqualFold(a, b) == ToLower(a) = ToLower(b)

DigitChars == <<"0", "1", "2", "3", "4", "5", "6", "7", "8", "9">>

DigitVal(c) == (CHOOSE d \in 1..10 : DigitChars[d] = c) - 1

AllDigits(s) == \A i \in 1..Len(s) : s[i] \in Digits

RECURSIVE ParseDigits(_)
ParseDigits(s) ==
    IF s = <<>> THEN 0
    ELSE 10 * ParseDigits(SubSeq(s, 1, Len(s) - 1)) + DigitVal(s[Len(s)])

\* a float64 is modelled by its number of hundredths; ParseError is the err
\* of strconv.ParseFloat
ParseError == -1

\* strconv.ParseFloat(s, 64) on the numerals "d+" and "d+.d" and "d+.dd"
ParseFloat(s) ==
    IF s # <<>> /\ AllDigits(s) THEN 100 * ParseDigits(s)
    ELSE IF /\ Index(s, ".") >= 1
            /\ AllDigits(Slice(s, 0, Index(s, ".")))
            /\ AllDigits(Slice(s, Index(s, ".") + 1, Len(s)))
            /\ Len(s) - Index(s, ".") - 1 \in {1, 2}
         THEN 100 * ParseDigits(Slice(s, 0, Index(s, ".")))
              + (IF Len(s) - Index(s, ".") - 1 = 1 THEN 10 ELSE 1)
                * ParseDigits(Slice(s, Index(s, ".") + 1, Len(s)))
         ELSE ParseError

RECURSIVE FormatInt(_)
FormatInt(n) ==
    IF n < 10 THEN <<DigitChars[n + 1]>>
    ELSE FormatInt(n \div 10) \o <<DigitChars[(n % 10) + 1]>>

\* strconv.FormatFloat(v, 'f', 2, 64) of v hundredths
FormatFloat(v) ==
    FormatInt(v \div 100) \o <<".">>
    \o <<DigitChars[((v % 100) \div 10) + 1], DigitChars[(v % 10) + 1]>>

\* the product of two float64, rounded to hundredths
Times(a, b) == (a * b + 50) \div 100

----------------------------------------------------------------------------
(* selectorMatcher.MatchesSelector: type, class and id parts, the          *)
(* descendant and the child combinator                                     *)

AttrStyle == <<"s", "t", "y", "l", "e">>
AttrClass == <<"c", "l", "a", "s", "s">>

\* elementNode.GetAttribute; a text or comment node has no attribute
GetAttribute(ns, n, key) ==
    IF ns[n].type = "Element" THEN MapGet(ns[n].attributes, ToLower(key)) ELSE <<>>

HasAttribute(ns, n, key) ==
    ns[n].type = "Element" /\ MapHas(ns[n].attributes, ToLower(key))

\* elementNode.HasClass
HasClass(ns, n, className) ==
    /\ ns[n].type = "Element"
    /\ MapHas(ns[n].attributes, AttrClass)
    /\ \E k \in 1..Len(Fields(MapGet(ns[n].attributes, AttrClass))) :
           Fields(MapGet(ns[n].attributes, AttrClass))[k] = className

\* parseCompoundSelector, the loop from index i (1-based) with the parts and
\* the current part so far
RECURSIVE compoundLoop(_, _, _, _)
compoundLoop(selector, i, parts, currentPart) ==
    IF i > Len(selector)
    THEN IF Len(currentPart) > 0 THEN Append(parts, currentPart) ELSE parts
    ELSE IF selector[i] \in {".", "#", "[", ":"}
         THEN compoundLoop(selector, i + 1,
                           IF Len(currentPart) > 0 THEN Append(parts, currentPart) ELSE parts,
                           <<selector[i]>>)
         ELSE IF selector[i] = "]"
              THEN compoundLoop(selector, i + 1,
                                Append(parts, Append(currentPart, "]")), <<>>)
              ELSE compoundLoop(selector, i + 1, parts, Append(currentPart, selector[i]))

parseCompoundSelector(selector) == compoundLoop(selector, 1, <<>>, <<>>)

\* matchesSelectorPart, for class, id and element parts
matchesSelectorPart(ns, n, part) ==
    IF part = <<>> THEN TRUE
    ELSE CASE part[1] = "." -> HasClass(ns, n, Tail(part))
           [] part[1] = "#" -> GetID(ns, n) = Tail(part)
           [] part[1] \notin {".", "#", "[", ":"} -> EqualFold(ns[n].tag, part)

matchesSimpleSelector(ns, n, sel) ==
    IF ns[n].type # "Element" THEN FALSE
    ELSE Let(TrimSpace(sel), LAMBDA selector :
             IF selector = <<"*">> THEN TRUE
             ELSE \A k \in 1..Len(parseCompoundSelector(selector)) :
                      matchesSelectorPart(ns, n, parseCompoundSelector(selector)[k]))

\* hasMatchingAncestor, the loop at current and selectorIndex (0-based)
RECURSIVE ancestorLoop(_, _, _, _)
ancestorLoop(ns, cur, ancestorSelectors, selectorIndex) ==
    IF cur # Nil /\ selectorIndex >= 0
    THEN IF matchesSimpleSelector(ns, cur, ancestorSelectors[selectorIndex + 1])
         THEN IF selectorIndex - 1 < 0 THEN TRUE
              ELSE ancestorLoop(ns, ns[cur].parent, ancestorSelectors, selectorIndex - 1)
         ELSE ancestorLoop(ns, ns[cur].parent, ancestorSelectors, selectorIndex)
    ELSE selectorIndex < 0

hasMatchingAncestor(ns, n, ancestorSelectors) ==
    ancestorLoop(ns, ns[n].parent, ancestorSelectors, Len(ancestorSelectors) - 1)

matchesComplexSelector(ns, n, selector) ==
    Let(Fields(selector), LAMBDA parts :
        IF Len(parts) < 2 THEN matchesSimpleSelector(ns, n, selector)
        ELSE IF ~matchesSimpleSelector(ns, n, parts[Len(parts)]) THEN FALSE
             ELSE hasMatchingAncestor(ns, n, SubSeq(parts, 1, Len(parts) - 1)))

matchesChildSelector(ns, n, selector) ==
    Let(Split(selector, ">"), LAMBDA parts :
        IF Len(parts) # 2 THEN FALSE
        ELSE IF ~matchesSimpleSelector(ns, n, TrimSpace(parts[2])) THEN FALSE
             ELSE ns[n].parent # Nil
                  /\ matchesSimpleSelector(ns, ns[n].parent, TrimSpace(parts[1])))

\* MatchesSelector, for selectors without a sibling combinator
MatchesSelector(ns, n, sel) ==
    IF n = Nil \/ sel = <<>> THEN FALSE
    ELSE Let(TrimSpace(sel), LAMBDA selector :
             IF Contains(selector, " ") /\ ~Contains(selector, ":")
             THEN matchesComplexSelector(ns, n, selector)
             ELSE IF Contains(selector, ">")
                  THEN matchesChildSelector(ns, n, selector)
                  ELSE matchesSimpleSelector(ns, n, selector))

----------------------------------------------------------------------------
(* cssApplicator.ComputeStyle *)

PropColor == <<"c", "o", "l", "o", "r">>
PropDisplay == <<"d", "i", "s", "p", "l", "a", "y">>
PropFontSize == <<"f", "o", "n", "t", "-", "s", "i", "z", "e">>
PropMarginTop == <<"m", "a", "r", "g", "i", "n", "-", "t", "o", "p">>

TagA == <<"a">>

\* const DefaultFontSize = 16.0, in hundredths
DefaultFontSize == 1600

\* createInheritedPropertiesMap, the properties of the model
inheritedProps == {PropColor, PropFontSize}

\* createDefaultValuesMap, the properties of the model
defaultValues ==
    << <<PropDisplay, <<"i", "n", "l", "i", "n", "e">>>>, <<PropColor, <<"#", "0", "0", "0", "0", "0", "0">>>>,
       <<PropFontSize, <<"1", "6", "p", "x">>>>, <<PropMarginTop, <<"0", "p", "x">>>> >>

\* getElementDefaults, the tags and properties of the model
getElementDefaults(tag) ==
    CASE tag \in {TagHtml, TagBody, TagDiv} -> << <<PropDisplay, <<"b", "l", "o", "c", "k">>>> >>
      [] tag = TagP -> << <<PropDisplay, <<"b", "l", "o", "c", "k">>>>, <<PropMarginTop, <<"1", "e", "m">>>> >>
      [] tag = TagA -> << <<PropColor, <<"#", "0", "0", "0", "0", "E", "E">>>> >>
      [] tag = TagSpan -> << <<PropDisplay, <<"i", "n", "l", "i", "n", "e">>>> >>
      [] OTHER -> <<>>

\* style.Properties[prop] = value for every pair of kvs
RECURSIVE SetAll(_, _)
SetAll(style, kvs) ==
    IF kvs = <<>> THEN style
    ELSE SetAll(MapSet(style, Head(kvs)[1], Head(kvs)[2]), Tail(kvs))

setElementSpecificDefaults(style, ns, n) ==
    IF ns[n].type # "Element" THEN style
    ELSE SetAll(style, getElementDefaults(ToLower(ns[n].tag)))

setDefaultStyles(ns, n) == setElementSpecificDefaults(SetAll(<<>>, defaultValues), ns, n)

\* applyInheritedStyles that copies nothing
inheritNothing(style, parentStyle) == style

\* applyInheritedStyles, given the computed style of the parent
applyInheritedStyles(style, parentStyle) ==
    SetAll(style, SelectSeq(parentStyle, LAMBDA kv : kv[1] \in inheritedProps))

\* a CSSRule with one selector list and its declarations,
\* a declaration being <<property, [Raw, Important]>>
CSSRule(selectors, declarations) ==
    [Selectors |-> selectors, Declarations |-> declarations]

CSSDeclaration(property, raw, important) ==
    <<property, [Raw |-> raw, Important |-> important]>>

\* findRuleMatch: the first selector of the rule that matches the node, as an
\* index of rule.Selectors, 0 when none does
firstMatch(ns, n, rule) ==
    IF \E k \in 1..Len(rule.Selectors) : MatchesSelector(ns, n, rule.Selectors[k])
    THEN CHOOSE k \in 1..Len(rule.Selectors) :
             /\ MatchesSelector(ns, n, rule.Selectors[k])
             /\ \A j \in 1..(k - 1) : ~MatchesSelector(ns, n, rule.Selectors[j])
    ELSE 0

\* collectMatchingRules, the loop from rule i
RECURSIVE collectMatchingRules(_, _, _, _)
collectMatchingRules(ns, n, rules, i) ==
    IF i > Len(rules) THEN <<>>
    ELSE IF firstMatch(ns, n, rules[i]) = 0
         THEN collectMatchingRules(ns, n, rules, i + 1)
         ELSE <<[rule |-> rules[i],
                 specificity |-> calculateSelectorSpecificity(
                                     rules[i].Selectors[firstMatch(ns, n, rules[i])])]>>
              \o collectMatchingRules(ns, n, rules, i + 1)

SwapMatches(m, i, j) == [m EXCEPT ![i] = m[j], ![j] = m[i]]

\* sortMatchesBySpecificity, the inner loop at i, j (1-based)
RECURSIVE sortInner(_, _, _)
sortInner(m, i, j) ==
    IF j > Len(m) THEN m
    ELSE sortInner(IF m[i].specificity > m[j].specificity THEN SwapMatches(m, i, j) ELSE m,
                   i, j + 1)

\* sortMatchesBySpecificity, the outer loop at i (1-based)
RECURSIVE sortOuter(_, _)
sortOuter(m, i) ==
    IF i >= Len(m) THEN m ELSE sortOuter(sortInner(m, i, i + 1), i + 1)

sortMatchesBySpecificity(m) == sortOuter(m, 1)

\* the declarations of a rule as <<property, Value.Raw>> pairs
RawPairs(declarations) ==
    [k \in 1..Len(declarations) |-> <<declarations[k][1], declarations[k][2].Raw>>]

RECURSIVE applyMatchedRules(_, _)
applyMatchedRules(style, matches) ==
    IF matches = <<>> THEN style
    ELSE applyMatchedRules(SetAll(style, RawPairs(Head(matches).rule.Declarations)),
                           Tail(matches))

applyCSSRules(style, ns, n, rules) ==
    applyMatchedRules(style, sortMatchesBySpecificity(collectMatchingRules(ns, n, rules, 1)))

\* parseInlineStyles, the loop over the parts split at ";"
RECURSIVE inlineLoop(_, _)
inlineLoop(parts, declarations) ==
    IF parts = <<>> THEN declarations
    ELSE Let(TrimSpace(Head(parts)), LAMBDA part :
             IF part = <<>> \/ Index(part, ":") = -1
             THEN inlineLoop(Tail(parts), declarations)
             ELSE IF /\ TrimSpace(Slice(part, 0, Index(part, ":"))) # <<>>
                     /\ TrimSpace(Slice(part, Index(part, ":") + 1, Len(part))) # <<>>
                  THEN inlineLoop(Tail(parts),
                           MapSet(declarations,
                                  TrimSpace(Slice(part, 0, Index(part, ":"))),
                                  TrimSpace(Slice(part, Index(part, ":") + 1, Len(part)))))
                  ELSE inlineLoop(Tail(parts), declarations))

parseInlineStyles(styleAttr) == inlineLoop(Split(styleAttr, ";"), <<>>)

\* applyInlineStyles without the style attribute
ignoreInlineStyles(style, ns, n) == style

applyInlineStyles(style, ns, n) ==
    IF ns[n].type # "Element" THEN style
    ELSE IF ~HasAttribute(ns, n, AttrStyle) \/ GetAttribute(ns, n, AttrStyle) = <<>>
         THEN style
         ELSE SetAll(style, parseInlineStyles(GetAttribute(ns, n, AttrStyle)))

Px == <<"p", "x">>
Em == <<"e", "m">>
Percent == <<"%">>

\* getParentFontSize, given the computed style of the parent (<<>> for no parent)
getParentFontSize(hasParent, parentStyle) ==
    IF ~hasParent \/ ~MapHas(parentStyle, PropFontSize) THEN DefaultFontSize
    ELSE IF /\ HasSuffix(MapGet(parentStyle, PropFontSize), Px)
            /\ ParseFloat(TrimSuffix(MapGet(parentStyle, PropFontSize), Px)) # ParseError
         THEN ParseFloat(TrimSuffix(MapGet(parentStyle, PropFontSize), Px))
         ELSE DefaultFontSize

resolveEmFontSize(style, fontSize, parentFontSize) ==
    IF ParseFloat(TrimSuffix(fontSize, Em)) = ParseError THEN style
    ELSE MapSet(style, PropFontSize,
                FormatFloat(Times(ParseFloat(TrimSuffix(fontSize, Em)), parentFontSize)) \o Px)

resolvePercentageFontSize(style, fontSize, parentFontSize) ==
    IF ParseFloat(TrimSuffix(fontSize, Percent)) = ParseError THEN style
    ELSE MapSet(style, PropFontSize,
                FormatFloat((ParseFloat(TrimSuffix(fontSize, Percent)) * parentFontSize
                             + 5000) \div 10000) \o Px)

\* resolveRelativeUnits, for the margin of the model
resolveRelativeUnits(style) ==
    Let(IF /\ MapHas(style, PropFontSize)
           /\ HasSuffix(MapGet(style, PropFontSize), Px)
           /\ ParseFloat(TrimSuffix(MapGet(style, PropFontSize), Px)) # ParseError
        THEN ParseFloat(TrimSuffix(MapGet(style, PropFontSize), Px))
        ELSE DefaultFontSize,
        LAMBDA fontSize :
            IF /\ MapHas(style, PropMarginTop)
               /\ HasSuffix(MapGet(style, PropMarginTop), Em)
               /\ ParseFloat(TrimSuffix(MapGet(style, PropMarginTop), Em)) # ParseError
            THEN MapSet(style, PropMarginTop,
                        FormatFloat(Times(ParseFloat(TrimSuffix(MapGet(style, PropMarginTop), Em)),
                                          fontSize)) \o Px)
            ELSE style)

computeFinalValues(style, hasParent, parentStyle) ==
    resolveRelativeUnits(
        IF ~MapHas(style, PropFontSize) THEN style
        ELSE IF HasSuffix(MapGet(style, PropFontSize), Em)
             THEN resolveEmFontSize(style, MapGet(style, PropFontSize),
                                    getParentFontSize(hasParent, parentStyle))
             ELSE IF HasSuffix(MapGet(style, PropFontSize), Percent)
                  THEN resolvePercentageFontSize(style, MapGet(style, PropFontSize),
                                                 getParentFontSize(hasParent, parentStyle))
                  ELSE style)

\* ComputeStyle given the computed style of the parent, which ComputeStyle
\* computes for applyInheritedStyles and again for getParentFontSize
styleOf(ns, rules, n, hasParent, parentStyle) ==
    computeFinalValues(
        applyInlineStyles(
            applyCSSRules(
                IF hasParent THEN applyInheritedStyles(setDefaultStyles(ns, n), parentStyle)
                ELSE setDefaultStyles(ns, n),
                ns, n, rules),
            ns, n),
        hasParent, parentStyle)

RECURSIVE ComputeStyle(_, _, _)
ComputeStyle(ns, rules, n) ==
    IF ns[n].parent = Nil THEN styleOf(ns, rules, n, FALSE, <<>>)
    ELSE styleOf(ns, rules, n, TRUE, ComputeStyle(ns, rules, ns[n].parent))

\* the selectors ComputeStyle asks the matcher the specificity of
RECURSIVE askedSelectors(_, _, _)
askedSelectors(ns, rules, n) ==
    { rules[i].Selectors[firstMatch(ns, n, rules[i])] :
          i \in {j \in 1..Len(rules) : firstMatch(ns, n, rules[j]) # 0} }
    \cup (IF ns[n].parent = Nil THEN {} ELSE askedSelectors(ns, rules, ns[n].parent))

\* selectorMatcher.selectorCache after ComputeStyle
cacheAfterAll(cache, selectors) ==
    [x \in DOMAIN cache \cup selectors |->
        IF x \in DOMAIN cache THEN cache[x] ELSE calculateSelectorSpecificity(x)]

----------------------------------------------------------------------------
(* CascadeSpec: documentBuilder.applyStylesToTree over a small document and *)
(* a stylesheet of at most MaxRules rules                                   *)

MaxRules == 2

Red == <<"r", "e", "d">>
Blue == <<"b", "l", "u", "e">>
Green == <<"g", "r", "e", "e", "n">>

\* the values of the style attribute of the paragraph; <<>> is no attribute
InlineStyles ==
    { <<>>, <<"c", "o", "l", "o", "r", ":", "b", "l", "u", "e">>, <<"c", "o", "l", "o", "r", ":", " ", "b", "l", "u", "e", ";", " ", "m", "a", "r", "g", "i", "n", "-", "t", "o", "p", ":", "8", "p", "x">>, <<"f", "o", "n", "t", "-", "s", "i", "z", "e", ":", "2", "e", "m">> }

StyleAttr(styleAttr) == IF styleAttr = <<>> THEN <<>> ELSE << <<AttrStyle, styleAttr>> >>

\* <div style="color:green"><p style=...>x</p></div>, the paragraph with or
\* without class="a" id="b"
CascadeDocument(styleAttr, named) ==
    AddChild(
        AddChild(
            << NewElementNode(TagDiv, StyleAttr(<<"c", "o", "l", "o", "r", ":", "g", "r", "e", "e", "n">>)),
               NewElementNode(TagP,
                   (IF named THEN << <<AttrClass, <<"a">> >>, << <<"i", "d">>, <<"b">> >> >>
                    ELSE <<>>) \o StyleAttr(styleAttr)),
               NewTextNode(<<"x">>) >>,
            1, 2),
        2, 3)

\* the values of the style attribute of the body; <<>> is no attribute
BodyStyles ==
    { <<>>, <<"c", "o", "l", "o", "r", ":", "g", "r", "e", "e", "n">>, <<"m", "a", "r", "g", "i", "n", "-", "t", "o", "p", ":", "8", "p", "x">>, <<"c", "o", "l", "o", "r", ":", "g", "r", "e", "e", "n", ";", "m", "a", "r", "g", "i", "n", "-", "t", "o", "p", ":", "8", "p", "x">> }

\* <body style=...><span>x</span></body>
BodySpanDocument(styleAttr) ==
    AddChild(
        AddChild(
            << NewElementNode(TagBody, StyleAttr(styleAttr)),
               NewElementNode(TagSpan, <<>>),
               NewTextNode(<<"x">>) >>,
            1, 2),
        2, 3)

CascadeDocuments ==
    { CascadeDocument(styleAttr, named) : styleAttr \in InlineStyles, named \in BOOLEAN }
    \cup { BodySpanDocument(styleAttr) : styleAttr \in BodyStyles }

RuleSelectors == { <<"p">>, <<".", "a">>, <<"#", "b">>, <<"d", "i", "v", " ", "p">> }

RuleDeclarations ==
    { CSSDeclaration(PropColor, Red, FALSE),
      CSSDeclaration(PropColor, Red, TRUE),
      CSSDeclaration(PropFontSize, <<"2", "e", "m">>, FALSE) }

CascadeRules ==
    { CSSRule(<<sel>>, <<decl>>) : sel \in RuleSelectors, decl \in RuleDeclarations }
    \cup { CSSRule(<<<<".", "a">>>>, <<CSSDeclaration(PropColor, Blue, FALSE)>>) }

Stylesheets(n) == UNION { [1..k -> CascadeRules] : k \in 0..n }

DocumentRoot == 1

\* the nodes in the order applyStylesToTree visits them
RECURSIVE PreOrder(_, _)
PreOrder(ns, n) ==
    <<n>> \o Flatten([k \in 1..Len(ns[n].children) |-> PreOrder(ns, ns[n].children[k])])

NotStyled == <<>>

CascadeInit ==
    /\ nodes \in CascadeDocuments
    /\ css \in Stylesheets(MaxRules)
    /\ computed = [n \in 1..3 |-> NotStyled]
    /\ selectorCache = <<>>
    /\ selectorParts = <<>>
    /\ specificity = <<>>
    /\ content = <<>>
    /\ pos = 0
    /\ current = NUL
    /\ status = "cascade"
    /\ NoLayout
    /\ NoFetch
    /\ NoBrowser
    /\ NoScan
    /\ tokens = <<>>
    /\ froms = <<>>
    /\ state = <<>>
    /\ styleTags = <<>>
    /\ metadata = <<>>
    /\ scripts = <<>>

\* applyStylesToTree reaches the next node and computes its style
ComputeStyleCall ==
    /\ status = "cascade"
    /\ \E k \in 1..Len(PreOrder(nodes, DocumentRoot)) :
           /\ computed[PreOrder(nodes, DocumentRoot)[k]] = NotStyled
           /\ \A j \in 1..(k - 1) : computed[PreOrder(nodes, DocumentRoot)[j]] # NotStyled
           /\ computed' = [computed EXCEPT ![PreOrder(nodes, DocumentRoot)[k]] =
                               ComputeStyle(nodes, css, PreOrder(nodes, DocumentRoot)[k])]
           /\ selectorCache' = cacheAfterAll(selectorCache,
                                   askedSelectors(nodes, css, PreOrder(nodes, DocumentRoot)[k]))
    /\ UNCHANGED <<tokVars, nodes, state, styleTags, metadata, scripts,
                   selectorParts, specificity, css, layoutVars, fetchVars, browserVars, scanVars>>

CascadeNext == ComputeStyleCall

CascadeSpec == CascadeInit /\ [][CascadeNext]_vars

\* an author rule of the stylesheet that matches node n and declares the
\* property without !important
AuthorRuleSets(n, prop) ==
    \E i \in 1..Len(css) :
        /\ firstMatch(nodes, n, css[i]) # 0
        /\ MapHas(css[i].Declarations, prop)
        /\ ~MapGet(css[i].Declarations, prop).Important

\* the value the style attribute of node n gives the property, <<>> if none
InlineValue(n, prop) ==
    IF HasAttribute(nodes, n, AttrStyle)
    THEN MapGet(parseInlineStyles(GetAttribute(nodes, n, AttrStyle)), prop)
    ELSE <<>>

\* computeFinalValues rewrites the value into pixels
IsRelative(value) == HasSuffix(value, Em) \/ HasSuffix(value, Percent)

CascadeProps == {PropColor, PropDisplay, PropFontSize, PropMarginTop}

\* C10: when an author rule without !important that matches an element and
\* the element's style attribute both set a property, the computed value is
\* the inline one (compared as written where it is no relative length, which
\* ComputeStyle resolves into pixels).
C10_InlineBeatsAuthorRule ==
    \A n \in 1..Len(nodes) : \A prop \in CascadeProps :
        (/\ status = "cascade"
         /\ computed[n] # NotStyled
         /\ nodes[n].type = "Element"
         /\ AuthorRuleSets(n, prop)
         /\ InlineValue(n, prop) # <<>>
         /\ ~IsRelative(InlineValue(n, prop)))
            => MapGet(computed[n], prop) = InlineValue(n, prop)

\* p { color: red } and <p style="color:blue"> have been resolved to blue
C10_Witness ==
    /\ status = "cascade"
    /\ computed[2] # NotStyled
    /\ \E i \in 1..Len(css) : css[i] = CSSRule(<<<<"p">>>>, <<CSSDeclaration(PropColor, Red, FALSE)>>)
    /\ GetAttribute(nodes, 2, AttrStyle) = <<"c", "o", "l", "o", "r", ":", "b", "l", "u", "e">>
    /\ MapGet(computed[2], PropColor) = Blue

\* the values the matching author rules of node n declare for the property
\* with !important
ImportantValues(n, prop) ==
    { MapGet(css[i].Declarations, prop).Raw :
          i \in { j \in 1..Len(css) : /\ firstMatch(nodes, n, css[j]) # 0
                                      /\ MapHas(css[j].Declarations, prop)
                                      /\ MapGet(css[j].Declarations, prop).Important } }

\* C11: when a matching author rule declares a property with !important, the
\* computed value of the property is the rule's value, whatever the style
\* attribute of the element sets for it.
C11_ImportantBeatsInline ==
    \A n \in 1..Len(nodes) : \A prop \in CascadeProps :
        (/\ status = "cascade"
         /\ computed[n] # NotStyled
         /\ nodes[n].type = "Element"
         /\ ImportantValues(n, prop) # {}
         /\ \A v \in ImportantValues(n, prop) : ~IsRelative(v))
            => MapGet(computed[n], prop) \in ImportantValues(n, prop)

\* an author rule of the stylesheet that matches node n declares the property
RuleSets(n, prop) ==
    \E i \in 1..Len(css) :
        firstMatch(nodes, n, css[i]) # 0 /\ MapHas(css[i].Declarations, prop)

\* the document is <body><span>x</span></body> and both elements are styled
BodySpanStyled ==
    /\ status = "cascade"
    /\ nodes[1].tag = TagBody
    /\ nodes[2].tag = TagSpan
    /\ nodes[2].parent = 1
    /\ computed[1] # NotStyled
    /\ computed[2] # NotStyled

\* C12: with color set on the body and not on its child span, the computed
\* color of the span is the computed color of the body; a margin set on the
\* body leaves the computed margin of the span at its default.
C12_ColorInheritedMarginNot ==
    (/\ BodySpanStyled
     /\ ~RuleSets(2, PropColor) /\ InlineValue(2, PropColor) = <<>>
     /\ ~RuleSets(2, PropMarginTop) /\ InlineValue(2, PropMarginTop) = <<>>)
        => /\ MapGet(computed[2], PropColor) = MapGet(computed[1], PropColor)
           /\ MapGet(computed[2], PropMarginTop) = MapGet(defaultValues, PropMarginTop)

\* the body sets color green and margin-top 8px; the span is green with the
\* default margin
C12_Witness ==
    /\ BodySpanStyled
    /\ InlineValue(1, PropColor) = Green
    /\ InlineValue(1, PropMarginTop) = <<"8", "p", "x">>
    /\ MapGet(computed[1], PropMarginTop) = <<"8", "p", "x">>
    /\ MapGet(computed[2], PropColor) = Green
    /\ MapGet(computed[2], PropMarginTop) = <<"0", "p", "x">>

\* the specificity of a selector of the stylesheet: 100 x ids + 10 x
\* (classes, attributes, pseudo-classes) + 1 x types
SpecificityOf(sel) ==
    ExpectedSpecificity(CHOOSE ps \in SelectorInputs(MaxSelectorParts) : SelectorText(ps) = sel)

\* the rules that match node n and declare the property, as indexes of css
Declaring(n, prop) ==
    { i \in 1..Len(css) : firstMatch(nodes, n, css[i]) # 0 /\ MapHas(css[i].Declarations, prop) }

\* the specificity of the selector by which rule i matches node n
MatchSpecificity(n, i) == SpecificityOf(css[i].Selectors[firstMatch(nodes, n, css[i])])

\* the rules of Declaring(n, prop) of the highest specificity
MostSpecific(n, prop) ==
    { i \in Declaring(n, prop) :
          \A j \in Declaring(n, prop) : MatchSpecificity(n, j) <= MatchSpecificity(n, i) }

\* C13: when two author rules match a node and set the same property, the
\* computed value is the one of the rule whose matching selector has the
\* higher specificity, whatever their order in the stylesheet and whatever the
\* lengths of the selector names.
C13_HigherSpecificityWins ==
    \A n \in 1..Len(nodes) : \A prop \in CascadeProps :
        (/\ status = "cascade"
         /\ computed[n] # NotStyled
         /\ nodes[n].type = "Element"
         /\ InlineValue(n, prop) = <<>>
         /\ Cardinality(Declaring(n, prop)) = 2
         /\ Cardinality(MostSpecific(n, prop)) = 1
         /\ \A i \in Declaring(n, prop) :
                /\ ~MapGet(css[i].Declarations, prop).Important
                /\ ~IsRelative(MapGet(css[i].Declarations, prop).Raw))
            => \A i \in MostSpecific(n, prop) :
                   MapGet(computed[n], prop) = MapGet(css[i].Declarations, prop).Raw

----------------------------------------------------------------------------
(* The layout engine: layoutEngine.Layout over a Document whose nodes hold *)
(* their computed styles.  A float64 length is its number of hundredths of *)
(* a pixel.                                                                *)

\* F applied to v, with v evaluated before F is applied
Eval(v, F(_)) == IF v = v THEN F(v) ELSE F(v)

PropBackgroundColor ==
    <<"b", "a", "c", "k", "g", "r", "o", "u", "n", "d", "-", "c", "o", "l", "o", "r">>
PropWhiteSpace == <<"w", "h", "i", "t", "e", "-", "s", "p", "a", "c", "e">>

\* the properties calculateBoxModel reads, in the order it reads them
BoxProps ==
    Eval(<<<<"t", "o", "p">>, <<"r", "i", "g", "h", "t">>,
          <<"b", "o", "t", "t", "o", "m">>, <<"l", "e", "f", "t">>>>, LAMBDA sides :
        [i \in 1..8 |->
            (IF i <= 4 THEN <<"m", "a", "r", "g", "i", "n", "-">>
                       ELSE <<"p", "a", "d", "d", "i", "n", "g", "-">>)
            \o sides[((i - 1) % 4) + 1]])

MinFontSize == 800
MaxFontSize == 7200

\* fontSize * CharWidthRatio (0.6) and fontSize * LineHeightRatio (1.2)
CharacterWidth(fontSize) == (fontSize * 6) \div 10
LineHeight(fontSize) == (fontSize * 12) \div 10

Transparent == <<"t", "r", "a", "n", "s", "p", "a", "r", "e", "n", "t">>
Black == <<"b", "l", "a", "c", "k">>
DefaultTextColor == <<"#", "0", "0", "0", "0", "0", "0">>

\* color.NRGBA
NRGBA(r, g, b, a) == <<r, g, b, a>>

ColorError == <<>>

\* colorParser.ParseColor on the named colours and on "#000000"; any other
\* text here is no colour: the error return
ParseColor(color) ==
    Eval(TrimSpace(ToLower(color)), LAMBDA c :
        CASE c = Black -> NRGBA(0, 0, 0, 255)
          [] c = DefaultTextColor -> NRGBA(0, 0, 0, 255)
          [] c = Red -> NRGBA(255, 0, 0, 255)
          [] c = Green -> NRGBA(0, 128, 0, 255)
          [] c = Blue -> NRGBA(0, 0, 255, 255)
          [] OTHER -> ColorError)

\* LayoutCache.GetColor: the colour and the colorCache after the call
GetColor(colorCache, colorStr) ==
    IF colorStr = <<>> \/ colorStr = Transparent
    THEN [result |-> NRGBA(0, 0, 0, 0), cache |-> colorCache]
    ELSE IF MapHas(colorCache, colorStr)
    THEN [result |-> MapGet(colorCache, colorStr), cache |-> colorCache]
    ELSE Eval(IF ParseColor(colorStr) = ColorError THEN NRGBA(0, 0, 0, 255)
             ELSE ParseColor(colorStr), LAMBDA result :
             [result |-> result, cache |-> MapSet(colorCache, colorStr, result)])

Rem == <<"r", "e", "m">>

\* the units of unitParser.ParseUnit that the model converts
Units == {Px, Em, Rem, Percent}

\* unitParser.ParseUnit: the number, the unit and ok
ParseUnit(value) ==
    Eval(TrimSpace(value), LAMBDA v :
        IF v = <<>> THEN [number |-> 0, unit |-> <<>>, ok |-> FALSE]
        ELSE IF ParseFloat(v) # ParseError
        THEN [number |-> ParseFloat(v), unit |-> <<>>, ok |-> TRUE]
        ELSE IF \E u \in Units : HasSuffix(v, u) /\ ParseFloat(TrimSuffix(v, u)) # ParseError
        THEN Eval(CHOOSE u \in Units :
                     HasSuffix(v, u) /\ ParseFloat(TrimSuffix(v, u)) # ParseError, LAMBDA u :
                 [number |-> ParseFloat(TrimSuffix(v, u)), unit |-> u, ok |-> TRUE])
        ELSE [number |-> 0, unit |-> <<>>, ok |-> FALSE])

\* unitParser.ConvertToPixels
ConvertToPixels(value, unit, baseFontSize) ==
    CASE unit = Px \/ unit = <<>> -> value
      [] unit = Em -> Times(value, baseFontSize)
      [] unit = Rem -> Times(value, DefaultFontSize)
      [] unit = Percent -> (value * baseFontSize + 5000) \div 10000
      [] OTHER -> value

\* LayoutCache.GetUnit: the length and the unitCache after the call
GetUnit(unitCache, value, baseFontSize) ==
    IF value = <<>> \/ value = <<"0">>
    THEN [result |-> 0, cache |-> unitCache]
    ELSE IF MapHas(unitCache, value)
    THEN [result |-> MapGet(unitCache, value), cache |-> unitCache]
    ELSE Eval(IF ParseUnit(value).ok
             THEN ConvertToPixels(ParseUnit(value).number, ParseUnit(value).unit, baseFontSize)
             ELSE 0, LAMBDA result :
             [result |-> result, cache |-> MapSet(unitCache, value, result)])

\* the clamp of GetFontSize to MinFontSize and MaxFontSize
clampFontSize(result) ==
    IF result < MinFontSize THEN MinFontSize
    ELSE IF result > MaxFontSize THEN MaxFontSize
    ELSE result

\* a GetFontSize that returns the size before the clamp and caches the size
\* after it
getFontSizeUnclamped(fontSizeCache, fontSizeStr, baseFontSize) ==
    IF fontSizeStr = <<>>
    THEN [result |-> baseFontSize, cache |-> fontSizeCache]
    ELSE IF MapHas(fontSizeCache, fontSizeStr)
    THEN [result |-> MapGet(fontSizeCache, fontSizeStr), cache |-> fontSizeCache]
    ELSE Eval(IF ParseUnit(fontSizeStr).ok
             THEN ConvertToPixels(ParseUnit(fontSizeStr).number,
                                  ParseUnit(fontSizeStr).unit, baseFontSize)
             ELSE baseFontSize, LAMBDA result :
             [result |-> result,
              cache |-> MapSet(fontSizeCache, fontSizeStr, clampFontSize(result))])

\* LayoutCache.GetFontSize: the font size and the fontSizeCache after the call
GetFontSize(fontSizeCache, fontSizeStr, baseFontSize) ==
    IF fontSizeStr = <<>>
    THEN [result |-> baseFontSize, cache |-> fontSizeCache]
    ELSE IF MapHas(fontSizeCache, fontSizeStr)
    THEN [result |-> MapGet(fontSizeCache, fontSizeStr), cache |-> fontSizeCache]
    ELSE Eval(clampFontSize(
                 IF ParseUnit(fontSizeStr).ok
                 THEN ConvertToPixels(ParseUnit(fontSizeStr).number,
                                      ParseUnit(fontSizeStr).unit, baseFontSize)
                 ELSE baseFontSize), LAMBDA result :
             [result |-> result, cache |-> MapSet(fontSizeCache, fontSizeStr, result)])

\* TextMetrics.calculateTextDimensions: the number of lines
calculateTextDimensions(characterWidth, text, availableWidth) ==
    IF text = <<>> THEN 1
    ELSE IF Len(text) * characterWidth <= availableWidth THEN 1
    ELSE Eval(IF availableWidth \div characterWidth < 1 THEN 1
             ELSE availableWidth \div characterWidth, LAMBDA charactersPerLine :
             (Len(text) + charactersPerLine - 1) \div charactersPerLine)

\* types.Bounds
Bounds(x, y, w, h) == [X |-> x, Y |-> y, Width |-> w, Height |-> h]

\* Bounds.Contains
BoundsContains(b, x, y) ==
    x >= b.X /\ x <= b.X + b.Width /\ y >= b.Y /\ y <= b.Y + b.Height

\* Bounds.Intersects
Intersects(b, other) ==
    ~(\/ b.X + b.Width < other.X
      \/ other.X + other.Width < b.X
      \/ b.Y + b.Height < other.Y
      \/ other.Y + other.Height < b.Y)

\* render.NewDrawText and render.NewDrawRect
NewDrawText(x, y, text, fontSize, color, node) ==
    [kind |-> "text", x |-> x, y |-> y, text |-> text, fontSize |-> fontSize,
     color |-> color, node |-> node]

NewDrawRect(bounds, color, node) ==
    [kind |-> "rect", bounds |-> bounds, color |-> color, node |-> node]

\* drawText.GetBounds and drawRect.GetBounds
GetBounds(cmd) ==
    IF cmd.kind = "text"
    THEN Bounds(cmd.x, cmd.y, Len(cmd.text) * CharacterWidth(cmd.fontSize), cmd.fontSize)
    ELSE cmd.bounds

\* drawText.isVisible and drawRect.isVisible, maxY the height of the window
isVisible(cmd, adjustedY, maxY) ==
    IF cmd.kind = "text"
    THEN Eval(IF cmd.fontSize <= 0 THEN DefaultFontSize ELSE cmd.fontSize, LAMBDA textHeight :
             Intersects(Bounds(cmd.x, adjustedY,
                               Len(cmd.text) * CharacterWidth(cmd.fontSize), textHeight),
                        Bounds(0, 0 - textHeight * 2, maxY * 2, maxY + textHeight * 2)))
    ELSE Intersects(Bounds(cmd.bounds.X, adjustedY, cmd.bounds.Width, cmd.bounds.Height),
                    Bounds(0, 0, maxY * 2, maxY))

\* displayList.FindElementAt, from command i (counted from 1) down
RECURSIVE findElementLoop(_, _, _, _, _)
findElementLoop(commands, i, x, y, scrollY) ==
    IF i < 1 THEN Nil
    ELSE IF BoundsContains(Bounds(GetBounds(commands[i]).X,
                                  GetBounds(commands[i]).Y - scrollY,
                                  GetBounds(commands[i]).Width,
                                  GetBounds(commands[i]).Height), x, y)
    THEN commands[i].node
    ELSE findElementLoop(commands, i - 1, x, y, scrollY)

\* a FindElementAt that scans the commands from the first one up
RECURSIVE findFirstElementAt(_, _, _, _)
findFirstElementAt(commands, x, y, scrollY) ==
    IF commands = <<>> THEN Nil
    ELSE IF BoundsContains(Bounds(GetBounds(Head(commands)).X,
                                  GetBounds(Head(commands)).Y - scrollY,
                                  GetBounds(Head(commands)).Width,
                                  GetBounds(Head(commands)).Height), x, y)
    THEN Head(commands).node
    ELSE findFirstElementAt(Tail(commands), x, y, scrollY)

FindElementAt(commands, x, y, scrollY) ==
    findElementLoop(commands, Len(commands), x, y, scrollY)

\* layoutEngine.normalizeWhitespace, before the final TrimSpace: the loop over
\* the runes from the i-th on, result the text written so far
RECURSIVE normalizeLoop(_, _, _, _, _, _)
normalizeLoop(text, i, preserveNewlines, result, lastWasSpace, lastWasNewline) ==
    IF i > Len(text) THEN result
    ELSE IF text[i] \in {"\n", "\r"}
    THEN IF preserveNewlines
         THEN IF ~lastWasNewline
              THEN normalizeLoop(text, i + 1, preserveNewlines,
                                 Append(result, "\n"), FALSE, TRUE)
              ELSE normalizeLoop(text, i + 1, preserveNewlines,
                                 result, lastWasSpace, lastWasNewline)
         ELSE IF ~lastWasSpace
              THEN normalizeLoop(text, i + 1, preserveNewlines,
                                 Append(result, " "), TRUE, FALSE)
              ELSE normalizeLoop(text, i + 1, preserveNewlines,
                                 result, lastWasSpace, lastWasNewline)
    ELSE IF text[i] \in {" ", "\t"}
    THEN IF ~lastWasSpace /\ ~lastWasNewline
         THEN normalizeLoop(text, i + 1, preserveNewlines, Append(result, " "), TRUE, FALSE)
         ELSE normalizeLoop(text, i + 1, preserveNewlines,
                            result, lastWasSpace, lastWasNewline)
    ELSE normalizeLoop(text, i + 1, preserveNewlines, Append(result, text[i]), FALSE, FALSE)

normalizeWhitespace(text, preserveNewlines) ==
    IF text = <<>> THEN <<>>
    ELSE IF ~preserveNewlines
    THEN TrimSpace(normalizeLoop(text, 1, preserveNewlines, <<>>, FALSE, FALSE))
    ELSE normalizeLoop(text, 1, preserveNewlines, <<>>, FALSE, FALSE)

WhiteSpacePre == <<"p", "r", "e">>
WhiteSpacePreWrap == <<"p", "r", "e", "-", "w", "r", "a", "p">>
WhiteSpacePreLine == <<"p", "r", "e", "-", "l", "i", "n", "e">>
WhiteSpaceNormal == <<"n", "o", "r", "m", "a", "l">>

isPreformattedWhitespace(whiteSpace) ==
    whiteSpace = WhiteSpacePre \/ whiteSpace = WhiteSpacePreWrap

processWhitespace(text, whiteSpace) ==
    IF isPreformattedWhitespace(whiteSpace) THEN text
    ELSE normalizeWhitespace(text, whiteSpace = WhiteSpacePreLine)

\* layoutEngine.getWhiteSpaceValue of the parent of a text node
getWhiteSpaceValue(ns, styles, parent) ==
    IF /\ parent # Nil
       /\ ns[parent].type = "Element"
       /\ MapGet(styles[parent], PropWhiteSpace) # <<>>
    THEN MapGet(styles[parent], PropWhiteSpace)
    ELSE WhiteSpaceNormal

\* layoutEngine.isSignificantWhitespace: an element before and an element
\* after the text node among the children of its parent
isSignificantWhitespace(ns, n, parent) ==
    \E k \in 1..Len(ns[parent].children) :
        /\ ns[parent].children[k] = n
        /\ \A j \in 1..(k - 1) : ns[parent].children[j] # n
        /\ \E j \in 1..(k - 1) : ns[ns[parent].children[j]].type = "Element"
        /\ \E j \in (k + 1)..Len(ns[parent].children) :
               ns[ns[parent].children[j]].type = "Element"

\* layoutEngine.isInHead
RECURSIVE isInHead(_, _)
isInHead(ns, n) ==
    IF ns[n].parent = Nil THEN FALSE
    ELSE IF ns[ns[n].parent].tag = <<"h", "e", "a", "d">> THEN TRUE
    ELSE isInHead(ns, ns[n].parent)

\* the three maps of a LayoutCache
LayoutCache(colorCache, unitCache, fontSizeCache) ==
    [colorCache |-> colorCache, unitCache |-> unitCache, fontSizeCache |-> fontSizeCache]

NilLayout == [type |-> "Nil"]

\* the GetUnit calls of calculateBoxModel one after the other: the eight
\* lengths and the unitCache after them
RECURSIVE boxModelLoop(_, _, _, _)
boxModelLoop(style, i, edges, unitCache) ==
    IF i > Len(BoxProps) THEN [edges |-> edges, cache |-> unitCache]
    ELSE Eval(GetUnit(unitCache, MapGet(style, BoxProps[i]), DefaultFontSize), LAMBDA r :
             boxModelLoop(style, i + 1, Append(edges, r.result), r.cache))

BoxEdges(e, from) ==
    [top |-> e[from + 1], right |-> e[from + 2], bottom |-> e[from + 3], left |-> e[from + 4]]

\* NewBlockLayout with calculateBoxModel: the layout node and the cache
NewBlockLayout(n, style, cache) ==
    Eval(boxModelLoop(style, 1, <<>>, cache.unitCache), LAMBDA r :
        [layout |-> [type |-> "Block", node |-> n, children |-> <<>>,
                     bounds |-> Bounds(0, 0, 0, 0), style |-> style,
                     margin |-> BoxEdges(r.edges, 0), padding |-> BoxEdges(r.edges, 4)],
         cache |-> [cache EXCEPT !.unitCache = r.cache]])

\* NewInlineLayout with calculateTextMetrics: the layout node and the cache
NewInlineLayout(n, style, text, cache) ==
    Eval(GetFontSize(cache.fontSizeCache, MapGet(style, PropFontSize), DefaultFontSize),
        LAMBDA r :
        [layout |-> [type |-> "Inline", node |-> n, text |-> text,
                     bounds |-> Bounds(0, 0, 0, 0), style |-> style,
                     metrics |-> [FontSize |-> r.result,
                                  CharacterWidth |-> CharacterWidth(r.result),
                                  LineHeight |-> LineHeight(r.result)]],
         cache |-> [cache EXCEPT !.fontSizeCache = r.cache]])

NewDocumentLayout(n) ==
    [type |-> "Document", node |-> n, children |-> <<>>, bounds |-> Bounds(0, 0, 0, 0)]

\* NewPreformattedLayout with calculateBoxModel: the layout node and the
\* cache
NewPreformattedLayout(n, style, cache) ==
    Eval(boxModelLoop(style, 1, <<>>, cache.unitCache), LAMBDA r :
        [layout |-> [type |-> "Preformatted", node |-> n, children |-> <<>>,
                     bounds |-> Bounds(0, 0, 0, 0), style |-> style,
                     margin |-> BoxEdges(r.edges, 0), padding |-> BoxEdges(r.edges, 4)],
         cache |-> [cache EXCEPT !.unitCache = r.cache]])

\* NewPreformattedInlineLayout with calculateTextMetrics: the layout node
\* and the cache
NewPreformattedInlineLayout(n, style, text, cache) ==
    Eval(GetFontSize(cache.fontSizeCache, MapGet(style, PropFontSize), DefaultFontSize),
        LAMBDA r :
        [layout |-> [type |-> "PreformattedInline", node |-> n, text |-> text,
                     bounds |-> Bounds(0, 0, 0, 0), style |-> style,
                     metrics |-> [FontSize |-> r.result,
                                  CharacterWidth |-> CharacterWidth(r.result),
                                  LineHeight |-> LineHeight(r.result)]],
         cache |-> [cache EXCEPT !.fontSizeCache = r.cache]])

TagPre == <<"p", "r", "e">>

\* layoutEngine.isInsidePreTag
RECURSIVE isInsidePreTag(_, _)
isInsidePreTag(ns, n) ==
    IF ns[n].parent = Nil THEN FALSE
    ELSE IF ns[ns[n].parent].type = "Element" /\ ns[ns[n].parent].tag = TagPre THEN TRUE
    ELSE isInsidePreTag(ns, ns[n].parent)

\* layoutEngine.createTextLayout
createTextLayout(ns, styles, cache, n) ==
    IF ns[n].content = <<>> THEN [layout |-> NilLayout, cache |-> cache]
    ELSE Eval(getWhiteSpaceValue(ns, styles, ns[n].parent), LAMBDA whiteSpace :
         Eval(processWhitespace(ns[n].content, whiteSpace), LAMBDA processedText :
             IF /\ processedText = <<>> /\ ~isPreformattedWhitespace(whiteSpace)
                /\ ~(ns[n].parent # Nil /\ isSignificantWhitespace(ns, n, ns[n].parent))
             THEN [layout |-> NilLayout, cache |-> cache]
             ELSE Eval(IF processedText = <<>> /\ ~isPreformattedWhitespace(whiteSpace)
                       THEN <<" ">> ELSE processedText, LAMBDA shown :
                      IF isInsidePreTag(ns, n)
                      THEN NewPreformattedInlineLayout(n, styles[n], shown, cache)
                      ELSE NewInlineLayout(n, styles[n], shown, cache))))

\* layoutEngine.buildLayoutTree, createElementLayout and
\* addChildrenToLayoutNode from the k-th child on: the layout node and the
\* LayoutCache after the calls
RECURSIVE buildLayoutTree(_, _, _, _)
RECURSIVE addChildrenToLayoutNode(_, _, _, _, _, _)

createElementLayout(ns, styles, cache, n) ==
    IF isInHead(ns, n) THEN [layout |-> NilLayout, cache |-> cache]
    ELSE IF MapGet(styles[n], PropDisplay) = <<"n", "o", "n", "e">>
    THEN [layout |-> NilLayout, cache |-> cache]
    ELSE IF ToLower(ns[n].tag) = <<"b", "r">>
    THEN NewInlineLayout(n, styles[n], <<"\n">>, cache)
    ELSE IF ToLower(ns[n].tag) = <<"h", "t", "m", "l">>
    THEN addChildrenToLayoutNode(ns, styles, cache, NewDocumentLayout(n), n, 1)
    ELSE IF ToLower(ns[n].tag) = TagPre
    THEN Eval(NewPreformattedLayout(n, styles[n], cache), LAMBDA r :
             addChildrenToLayoutNode(ns, styles, r.cache, r.layout, n, 1))
    ELSE Eval(NewBlockLayout(n, styles[n], cache), LAMBDA r :
             addChildrenToLayoutNode(ns, styles, r.cache, r.layout, n, 1))

buildLayoutTree(ns, styles, cache, n) ==
    IF n = Nil THEN [layout |-> NilLayout, cache |-> cache]
    ELSE IF ns[n].type = "Text" THEN createTextLayout(ns, styles, cache, n)
    ELSE IF ns[n].type = "Element" THEN createElementLayout(ns, styles, cache, n)
    ELSE [layout |-> NilLayout, cache |-> cache]

addChildrenToLayoutNode(ns, styles, cache, layoutNode, n, k) ==
    IF k > Len(ns[n].children) THEN [layout |-> layoutNode, cache |-> cache]
    ELSE Eval(buildLayoutTree(ns, styles, cache, ns[n].children[k]), LAMBDA r :
             addChildrenToLayoutNode(ns, styles, r.cache,
                 IF r.layout.type = "Nil" THEN layoutNode
                 ELSE [layoutNode EXCEPT !.children = Append(@, r.layout)],
                 n, k + 1))

isPreformattedText(style) ==
    MapGet(style, PropWhiteSpace) \in {WhiteSpacePre, WhiteSpacePreWrap, WhiteSpacePreLine}

\* SetPosition(x, y) and then Layout(width) of a layout node: the node with
\* its bounds and the bounds of the nodes below it; the height Layout
\* returns is bounds.Height
RECURSIVE Layout(_, _, _, _)
RECURSIVE layoutChildren(_, _, _, _, _)

\* the loop of documentLayout.Layout and blockLayout.Layout over the
\* children from the k-th on: the children laid out and currentY after them
layoutChildren(children, k, x, currentY, width) ==
    IF k > Len(children) THEN [children |-> children, currentY |-> currentY]
    ELSE Eval(Layout(children[k], x, currentY, width), LAMBDA child :
             layoutChildren([children EXCEPT ![k] = child], k + 1, x,
                            currentY + child.bounds.Height, width))

Layout(l, x, y, width) ==
    CASE l.type = "Document" ->
           Eval(layoutChildren(l.children, 1, 0, 0, width), LAMBDA r :
               [l EXCEPT !.children = r.children,
                         !.bounds = Bounds(x, y, width, r.currentY)])
      [] l.type = "Block" ->
           Eval(width - l.margin.left - l.margin.right, LAMBDA boundsWidth :
           Eval(layoutChildren(l.children, 1,
                              x + l.margin.left + l.padding.left,
                              y + l.margin.top + l.padding.top,
                              boundsWidth - l.padding.left - l.padding.right), LAMBDA r :
               [l EXCEPT !.children = r.children,
                         !.bounds = Bounds(x, y, boundsWidth,
                                           (r.currentY - y) + l.padding.bottom
                                           + l.margin.bottom)]))
      [] l.type = "Preformatted" ->
           Eval(width - l.margin.left - l.margin.right, LAMBDA boundsWidth :
           Eval(y + l.margin.top + l.padding.top, LAMBDA contentY :
           Eval(layoutChildren(l.children, 1,
                              x + l.margin.left + l.padding.left, contentY,
                              boundsWidth - l.padding.left - l.padding.right), LAMBDA r :
               [l EXCEPT !.children = r.children,
                         !.bounds = Bounds(x, y, boundsWidth,
                                           (r.currentY - y) + l.padding.bottom
                                           + l.margin.bottom - (contentY - y))])))
      [] l.type = "PreformattedInline" ->
           [l EXCEPT !.bounds =
               Bounds(x, y, width,
                      IF l.text = <<>> THEN 0
                      ELSE Len(Split(l.text, "\n")) * l.metrics.LineHeight)]
      [] l.type = "Inline" ->
           [l EXCEPT !.bounds =
               Bounds(x, y, width,
                      IF l.text = <<>> THEN 0
                      ELSE IF isPreformattedText(l.style)
                      THEN Len(Split(l.text, "\n")) * l.metrics.LineHeight
                      ELSE calculateTextDimensions(l.metrics.CharacterWidth, l.text, width)
                           * l.metrics.LineHeight)]

\* inlineLayout.wrapLineToWidth: the loop over the words from the k-th on
RECURSIVE wrapLoop(_, _, _, _, _)
wrapLoop(words, k, currentLine, lines, charactersPerLine) ==
    IF k > Len(words)
    THEN IF currentLine # <<>> THEN Append(lines, currentLine) ELSE lines
    ELSE Eval(IF currentLine = <<>> THEN words[k] ELSE currentLine \o <<" ">> \o words[k],
             LAMBDA testLine :
             IF Len(testLine) <= charactersPerLine
             THEN wrapLoop(words, k + 1, testLine, lines, charactersPerLine)
             ELSE wrapLoop(words, k + 1, words[k],
                           IF currentLine # <<>> THEN Append(lines, currentLine) ELSE lines,
                           charactersPerLine))

wrapLineToWidth(line, charactersPerLine) ==
    IF Fields(line) = <<>> THEN <<<<>>>>
    ELSE wrapLoop(Fields(line), 1, <<>>, <<>>, charactersPerLine)

calculateCharactersPerLine(l) ==
    IF l.bounds.Width \div l.metrics.CharacterWidth < 1 THEN 1
    ELSE l.bounds.Width \div l.metrics.CharacterWidth

splitTextIntoLines(l) ==
    Flatten([k \in 1..Len(Split(l.text, "\n")) |->
                IF Split(l.text, "\n")[k] = <<>> THEN <<<<>>>>
                ELSE wrapLineToWidth(Split(l.text, "\n")[k], calculateCharactersPerLine(l))])

\* displayList.AddCommand
AddCommand(commands, cmd) == Append(commands, cmd)

\* the loop of paintWrappedText and of paintPreformattedText over the lines
\* from the k-th on
RECURSIVE paintLines(_, _, _, _, _, _)
paintLines(l, lines, k, currentY, textColor, commands) ==
    IF k > Len(lines) THEN commands
    ELSE Eval(IF lines[k] # <<>>
              THEN AddCommand(commands,
                       NewDrawText(l.bounds.X, currentY, lines[k],
                                   l.metrics.FontSize, textColor, l.node))
              ELSE commands, LAMBDA added :
              paintLines(l, lines, k + 1, currentY + l.metrics.LineHeight, textColor, added))

paintWrappedText(l, textColor, commands) ==
    IF l.text = <<>> THEN commands
    ELSE paintLines(l, splitTextIntoLines(l), 1, l.bounds.Y, textColor, commands)

paintPreformattedText(l, textColor, commands) ==
    IF l.text = <<>> THEN commands
    ELSE paintLines(l, Split(l.text, "\n"), 1, l.bounds.Y, textColor, commands)

\* Paint of a layout node onto the display list dl = [commands, colorCache]
RECURSIVE Paint(_, _, _)
RECURSIVE paintChildren(_, _, _, _)

paintChildren(ns, children, k, dl) ==
    IF k > Len(children) THEN dl
    ELSE Eval(Paint(ns, children[k], dl), LAMBDA painted :
              paintChildren(ns, children, k + 1, painted))

\* blockLayout.paintBackground
paintBackground(l, dl) ==
    IF MapGet(l.style, PropBackgroundColor) \in {Transparent, <<>>} THEN dl
    ELSE Eval(GetColor(dl.colorCache, MapGet(l.style, PropBackgroundColor)), LAMBDA r :
             [commands |-> IF r.result[4] > 0
                           THEN AddCommand(dl.commands,
                                    NewDrawRect(Bounds(l.bounds.X + l.margin.left,
                                                       l.bounds.Y + l.margin.top,
                                                       l.bounds.Width,
                                                       l.bounds.Height - l.margin.top
                                                       - l.margin.bottom),
                                                r.result, l.node))
                           ELSE dl.commands,
              colorCache |-> r.cache])

\* inlineLayout.Paint; a link that is not hovered is painted in the link blue
inlinePaint(ns, l, dl) ==
    IF l.text = <<>> THEN dl
    ELSE Eval(GetColor(dl.colorCache, MapGet(l.style, PropColor)), LAMBDA r :
         Eval(IF ns[l.node].tag = TagA THEN NRGBA(0, 0, 238, 255) ELSE r.result,
             LAMBDA textColor :
             [commands |-> IF isPreformattedText(l.style)
                           THEN paintPreformattedText(l, textColor, dl.commands)
                           ELSE paintWrappedText(l, textColor, dl.commands),
              colorCache |-> r.cache]))

\* preformattedInlineLayout.Paint; a text colour with alpha 0 is painted
\* black
preformattedInlinePaint(l, dl) ==
    IF l.text = <<>> THEN dl
    ELSE Eval(GetColor(dl.colorCache, MapGet(l.style, PropColor)), LAMBDA r :
             [commands |-> paintLines(l, Split(l.text, "\n"), 1, l.bounds.Y,
                                      IF r.result[4] = 0 THEN NRGBA(0, 0, 0, 255)
                                      ELSE r.result, dl.commands),
              colorCache |-> r.cache])

Paint(ns, l, dl) ==
    CASE l.type = "Document" -> paintChildren(ns, l.children, 1, dl)
      [] l.type = "Block" -> paintChildren(ns, l.children, 1, paintBackground(l, dl))
      [] l.type = "Preformatted" -> paintChildren(ns, l.children, 1, paintBackground(l, dl))
      [] l.type = "PreformattedInline" -> preformattedInlinePaint(l, dl)
      [] l.type = "Inline" -> inlinePaint(ns, l, dl)

\* render.NewDisplayList
NewDisplayList == [commands |-> <<>>, height |-> 0]

\* layoutEngine.Layout(document, width, height): the layout tree it built,
\* the display list it returns, and the cache and the scrollHeight it leaves
EngineLayout(ns, styles, cache, scroll, width) ==
    Eval(buildLayoutTree(ns, styles, cache, DocumentRoot), LAMBDA tree :
        IF tree.layout.type = "Nil"
        THEN [root |-> NilLayout, displayList |-> NewDisplayList,
              cache |-> tree.cache, scrollHeight |-> scroll]
        ELSE Eval(Layout(tree.layout, 0, 0, width), LAMBDA root :
             Eval(Paint(ns, root, [commands |-> <<>>,
                                  colorCache |-> tree.cache.colorCache]), LAMBDA dl :
                 [root |-> root,
                  displayList |-> [commands |-> dl.commands,
                                   height |-> root.bounds.Height],
                  cache |-> [tree.cache EXCEPT !.colorCache = dl.colorCache],
                  scrollHeight |-> root.bounds.Height])))

----------------------------------------------------------------------------
(* The layout engine as a state machine: Layout calls on one Document,     *)
(* FindElementAt calls on the display list of the last one                 *)

\* the computed style of an element: the four properties it sets
LayoutStyle(fontSize, marginTop, background, display) ==
    << <<PropDisplay, display>>, <<PropColor, Red>>, <<PropFontSize, fontSize>>,
       <<PropMarginTop, marginTop>>, <<PropBackgroundColor, background>> >>

LayoutStyles ==
    { LayoutStyle(fontSize, marginTop, background, display) :
        fontSize \in { <<"1", "6", "p", "x">>, <<"8", "0", "p", "x">> },
        marginTop \in { <<"0", "p", "x">>, <<"8", "p", "x">> },
        background \in { Transparent, Red },
        display \in { <<"b", "l", "o", "c", "k">>, <<"n", "o", "n", "e">> } }

\* the computed style of a node that sets nothing: the defaults, and the
\* inherited colour and font size of the style s of its parent
InheritedStyle(s) ==
    << <<PropDisplay, <<"i", "n", "l", "i", "n", "e">>>>,
       <<PropColor, MapGet(s, PropColor)>>, <<PropFontSize, MapGet(s, PropFontSize)>>,
       <<PropMarginTop, <<"0", "p", "x">>>>, <<PropBackgroundColor, Transparent>> >>

UnsetStyle ==
    << <<PropDisplay, <<"b", "l", "o", "c", "k">>>>, <<PropColor, DefaultTextColor>>,
       <<PropFontSize, <<"1", "6", "p", "x">>>>, <<PropMarginTop, <<"0", "p", "x">>>>,
       <<PropBackgroundColor, Transparent>> >>

\* the document ns with the style s computed for its element n
StyledDocument(ns, n, s) ==
    [nodes |-> ns,
     styles |-> [k \in 1..Len(ns) |->
                    IF k = n THEN s
                    ELSE IF ns[k].parent = n THEN InheritedStyle(s)
                    ELSE UnsetStyle]]

LayoutTexts == { <<"a", "b">>, <<"a", " ", "b", " ", "c", " ", "d", " ", "e">> }

\* <html><div>text</div><p>cd</p></html>
StackDocument(text) ==
    AddChild(AddChild(AddChild(AddChild(
        << NewElementNode(TagHtml, <<>>), NewElementNode(TagDiv, <<>>), NewTextNode(text),
           NewElementNode(TagP, <<>>), NewTextNode(<<"c", "d">>) >>,
        1, 2), 2, 3), 1, 4), 4, 5)

\* <div>x<span>y</span></div>
NestedDocument ==
    AddChild(AddChild(AddChild(
        << NewElementNode(TagDiv, <<>>), NewTextNode(<<"x">>),
           NewElementNode(TagSpan, <<>>), NewTextNode(<<"y">>) >>,
        1, 2), 1, 3), 3, 4)

\* <html><head><title>t</title></head><body>ab</body></html>
HeadDocument ==
    AddChild(AddChild(AddChild(AddChild(AddChild(
        << NewElementNode(TagHtml, <<>>), NewElementNode(TagHead, <<>>),
           NewElementNode(TagTitle, <<>>), NewTextNode(<<"t">>),
           NewElementNode(TagBody, <<>>), NewTextNode(<<"a", "b">>) >>,
        1, 2), 2, 3), 3, 4), 1, 5), 5, 6)

LayoutInputs ==
    { StyledDocument(StackDocument(text), 2, s) : text \in LayoutTexts, s \in LayoutStyles }
    \cup { StyledDocument(NestedDocument, 1, s) : s \in LayoutStyles }
    \cup { StyledDocument(HeadDocument, 5, s) : s \in LayoutStyles }

\* the widths and heights of the window, in hundredths of a pixel
LayoutWidths == {1000, 20000}
LayoutHeights == {2000, 60000}

\* the points and scroll positions FindElementAt is asked about
QueryXs == {0, 500, 30000}
QueryYs == {0, 1000, 5000, 90000}
QueryScrolls == {0, 1920}

NoQuery == <<>>

LayoutInit ==
    /\ \E d \in LayoutInputs : nodes = d.nodes /\ computed = d.styles
    /\ status = "layout"
    /\ content = <<>>
    /\ pos = 0
    /\ current = NUL
    /\ tokens = <<>>
    /\ froms = <<>>
    /\ state = <<>>
    /\ styleTags = <<>>
    /\ metadata = <<>>
    /\ scripts = <<>>
    /\ selectorParts = <<>>
    /\ specificity = <<>>
    /\ selectorCache = <<>>
    /\ css = <<>>
    /\ NoLayout
    /\ NoFetch
    /\ NoBrowser
    /\ NoScan

\* layoutEngine.Layout(document, width, height); status tells whether the
\* call before it had the same width and height
LayoutCall(width, height) ==
    /\ status \in {"layout", "laidout", "relaid"}
    /\ \E r \in {EngineLayout(nodes, computed, layoutCache, scrollHeight, width)} :
           /\ layoutRoot' = r.root
           /\ displayList' = r.displayList
           /\ layoutCache' = r.cache
           /\ scrollHeight' = r.scrollHeight
    /\ layoutArgs' = <<width, height>>
    /\ status' = IF status # "layout" /\ layoutArgs = <<width, height>>
                 THEN "relaid" ELSE "laidout"
    /\ query' = NoQuery
    /\ found' = Nil
    /\ UNCHANGED <<content, pos, current, tokens, froms, treeVars, cssVars, fetchVars, browserVars, scanVars>>

\* displayList.FindElementAt(x, y, scrollY) on the display list of the last
\* Layout call
FindElementAtCall(x, y, scrollY) ==
    /\ status \in {"laidout", "relaid"}
    /\ query' = <<x, y, scrollY>>
    /\ found' = FindElementAt(displayList.commands, x, y, scrollY)
    /\ UNCHANGED <<tokVars, treeVars, cssVars, fetchVars, browserVars, scanVars, layoutCache, layoutArgs,
                   layoutRoot, displayList, scrollHeight>>

LayoutNext ==
    \/ \E width \in LayoutWidths, height \in LayoutHeights : LayoutCall(width, height)
    \/ \E x \in QueryXs, y \in QueryYs, scrollY \in QueryScrolls : FindElementAtCall(x, y, scrollY)

LayoutSpec == LayoutInit /\ [][LayoutNext]_vars

----------------------------------------------------------------------------
(* Claims about the layout engine and the display list *)

\* C14: a Layout call on the same Document with the width and the height of
\* the call before it leaves the box positions, the commands of the display
\* list (their order, bounds, text and colours) and the total height as the
\* call before it left them.
C14_LayoutIdempotent ==
    [][(status \in {"laidout", "relaid"} /\ status' = "relaid")
        => /\ layoutRoot' = layoutRoot
           /\ displayList' = displayList
           /\ scrollHeight' = scrollHeight]_vars

\* a second pass that read from the cache what the first pass stored there,
\* and painted text and a background
C14_Witness ==
    /\ status = "relaid"
    /\ layoutCache.fontSizeCache # <<>>
    /\ layoutCache.unitCache # <<>>
    /\ \E i \in 1..Len(displayList.commands) : displayList.commands[i].kind = "text"
    /\ \E i \in 1..Len(displayList.commands) : displayList.commands[i].kind = "rect"
    /\ \E i \in 1..Len(displayList.commands) :
           /\ displayList.commands[i].kind = "text"
           /\ displayList.commands[i].fontSize = MaxFontSize

\* the scroll positions to try: if some scroll position shows every command
\* of the list, then so does the smallest one, which is 0 or puts the top of
\* one command on the lower edge of the window
ScrollCandidates ==
    {0} \cup { s \in { GetBounds(displayList.commands[i]).Y - layoutArgs[2] :
                         i \in 1..Len(displayList.commands) } : s >= 0 }

\* C15: the display list that a Layout call returns holds no command that
\* lies outside the expanded rectangle of the window: there is a scroll
\* position at which every command of the list is visible in a window of the
\* height the call was given, and the height of the list is the height of
\* the whole layout.
C15_CulledAtEmission ==
    status \in {"laidout", "relaid"}
        => /\ \E scrollY \in ScrollCandidates :
                  \A i \in 1..Len(displayList.commands) :
                      isVisible(displayList.commands[i],
                                GetBounds(displayList.commands[i]).Y - scrollY,
                                layoutArgs[2])
           /\ displayList.height = scrollHeight

\* the commands whose bounds, moved up by the scroll position, contain the
\* point of the query
Hits ==
    { i \in 1..Len(displayList.commands) :
        Eval(GetBounds(displayList.commands[i]), LAMBDA b :
            /\ query[1] >= b.X
            /\ query[1] <= b.X + b.Width
            /\ query[2] >= b.Y - query[3]
            /\ query[2] <= b.Y - query[3] + b.Height) }

\* C16: FindElementAt returns the node of the last command of the display
\* list whose bounds, moved up by the scroll position, contain the point,
\* and nil when no command contains it.
C16_FindElementAtTopmost ==
    query # NoQuery
        => IF Hits = {} THEN found = Nil
           ELSE found = displayList.commands[CHOOSE i \in Hits : \A j \in Hits : j <= i].node

\* a point inside a background and inside the text painted over it: the
\* node of the text is found
C16_Witness ==
    /\ query # NoQuery
    /\ \E i, j \in Hits :
           /\ i < j
           /\ displayList.commands[i].node # displayList.commands[j].node
           /\ found = displayList.commands[j].node
           /\ \A k \in Hits : k <= j

----------------------------------------------------------------------------
(* documentBuilder.fetchExternalStylesheets: one goroutine per stylesheet  *)
(* URL, each calling apiHandler.FetchContent, and the loop that collects   *)
(* their results                                                           *)

\* cap(apiHandler.fetchPool), and the number of stylesheet links
MaxConcurrentConnections == 2
MaxUrls == 3

\* what a URL leads to: a response, a failed request, or a URL that
\* urlNormalizer.Normalize rejects; Pending until the fetch has found out
Served == {"ok", "error", "invalid"}
Pending == "pending"

\* the text the server answers for the i-th URL
StylesheetText(i) == <<(<<"a", "b", "c", "d", "e", "f">>)[i]>>

\* the (content, err) that FetchContent returns
Outcome(text, err) == [content |-> text, err |-> err]

\* a failing acquireFetchSlot that keeps a slot of the pool
acquireKeepsSlot(pool, done) ==
    (IF pool < MaxConcurrentConnections THEN { [err |-> FALSE, pool |-> pool + 1] } ELSE {})
    \cup (IF done THEN { [err |-> TRUE, pool |-> pool + 1] } ELSE {})

\* an acquireFetchSlot on a pool without capacity
acquireUnbounded(pool, done) ==
    { [err |-> FALSE, pool |-> pool + 1] }
    \cup (IF done THEN { [err |-> TRUE, pool |-> pool] } ELSE {})

\* apiHandler.acquireFetchSlot, the select: the cases that can proceed with
\* pool slots taken and the context done or not; each is the err returned
\* and the slots taken after it.  No case: the call waits.
acquireFetchSlot(pool, done) ==
    (IF pool < MaxConcurrentConnections THEN { [err |-> FALSE, pool |-> pool + 1] } ELSE {})
    \cup (IF done THEN { [err |-> TRUE, pool |-> pool] } ELSE {})

\* a fetchStylesheetAsync that sends the text of the error
errorAsContent(o) == IF o.err THEN <<"e", "r", "r">> ELSE o.content

\* fetchStylesheetAsync: what it sends on the channel for the (content, err)
\* of FetchContent
stylesheetResult(o) == IF o.err THEN <<>> ELSE o.content

FetchInit ==
    /\ served = [i \in 1..MaxUrls |-> Pending]
    /\ pc = [i \in 1..MaxUrls |-> "start"]
    /\ cancelled = [i \in 1..MaxUrls |-> FALSE]
    /\ outcome = [i \in 1..MaxUrls |-> Outcome(<<>>, FALSE)]
    /\ fetchPool = 0
    /\ cssChannel = <<>>
    /\ combinedCSS = <<>>
    /\ collected = 0
    /\ built = "no"
    /\ status = "fetch"
    /\ content = <<>>
    /\ pos = 0
    /\ current = NUL
    /\ tokens = <<>>
    /\ froms = <<>>
    /\ NoTree
    /\ NoCss
    /\ NoLayout
    /\ NoBrowser
    /\ NoScan

\* FetchContent begins: Normalize accepts the URL or rejects it, and the
\* error return for a URL it rejects
FetchContentCall(i) ==
    /\ status = "fetch"
    /\ pc[i] = "start"
    /\ \E valid \in BOOLEAN :
           IF ~valid
           THEN /\ served' = [served EXCEPT ![i] = "invalid"]
                /\ outcome' = [outcome EXCEPT ![i] = Outcome(<<>>, TRUE)]
                /\ pc' = [pc EXCEPT ![i] = "send"]
           ELSE /\ pc' = [pc EXCEPT ![i] = "acquire"]
                /\ UNCHANGED <<served, outcome>>
    /\ UNCHANGED <<cancelled, fetchPool, cssChannel, combinedCSS, collected, built>>
    /\ UNCHANGED <<tokVars, treeVars, cssVars, layoutVars, browserVars, scanVars>>

\* acquireFetchSlot returns: with a slot, or with the error of a context
\* that is done, and then FetchContent returns the error
AcquireFetchSlot(i) ==
    /\ pc[i] = "acquire"
    /\ \E r \in acquireFetchSlot(fetchPool, cancelled[i]) :
           /\ fetchPool' = r.pool
           /\ IF r.err
              THEN /\ outcome' = [outcome EXCEPT ![i] = Outcome(<<>>, TRUE)]
                   /\ pc' = [pc EXCEPT ![i] = "send"]
              ELSE /\ pc' = [pc EXCEPT ![i] = "fetching"]
                   /\ UNCHANGED outcome
    /\ UNCHANGED <<served, cancelled, cssChannel, combinedCSS, collected, built>>
    /\ UNCHANGED <<tokVars, treeVars, cssVars, layoutVars, browserVars, scanVars>>

\* performHTTPRequest returns what the server answers, or the error of a
\* request that failed
ResponseArrives(i) ==
    /\ pc[i] = "fetching"
    /\ ~cancelled[i]
    /\ \E answer \in Served \ {"invalid"} :
           /\ served' = [served EXCEPT ![i] = answer]
           /\ outcome' = [outcome EXCEPT ![i] =
                             IF answer = "ok" THEN Outcome(StylesheetText(i), FALSE)
                             ELSE Outcome(<<>>, TRUE)]
    /\ pc' = [pc EXCEPT ![i] = "release"]
    /\ UNCHANGED <<cancelled, fetchPool, cssChannel, combinedCSS, collected, built>>
    /\ UNCHANGED <<tokVars, treeVars, cssVars, layoutVars, browserVars, scanVars>>

\* performHTTPRequest returns the error of a context that is done
RequestAborted(i) ==
    /\ pc[i] = "fetching"
    /\ cancelled[i]
    /\ served' = [served EXCEPT ![i] = "error"]
    /\ outcome' = [outcome EXCEPT ![i] = Outcome(<<>>, TRUE)]
    /\ pc' = [pc EXCEPT ![i] = "release"]
    /\ UNCHANGED <<cancelled, fetchPool, cssChannel, combinedCSS, collected, built>>
    /\ UNCHANGED <<tokVars, treeVars, cssVars, layoutVars, browserVars, scanVars>>

\* the deferred releaseFetchSlot, and FetchContent returns
ReleaseFetchSlot(i) ==
    /\ pc[i] = "release"
    /\ fetchPool' = fetchPool - 1
    /\ pc' = [pc EXCEPT ![i] = "send"]
    /\ UNCHANGED <<served, cancelled, outcome, cssChannel, combinedCSS, collected, built>>
    /\ UNCHANGED <<tokVars, treeVars, cssVars, layoutVars, browserVars, scanVars>>

\* fetchStylesheetAsync sends its result; the channel has room for every URL
SendResult(i) ==
    /\ pc[i] = "send"
    /\ cssChannel' = Append(cssChannel, stylesheetResult(outcome[i]))
    /\ pc' = [pc EXCEPT ![i] = "done"]
    /\ UNCHANGED <<served, cancelled, outcome, fetchPool, combinedCSS, collected, built>>
    /\ UNCHANGED <<tokVars, treeVars, cssVars, layoutVars, browserVars, scanVars>>

\* the context of the i-th fetch is done: its timeout, or a cancel.  The
\* fetch reads the context in acquireFetchSlot and in the request only, so
\* a context that is done earlier is one that is done as the wait begins
ContextDone(i) ==
    /\ pc[i] \in {"acquire", "fetching"}
    /\ ~cancelled[i]
    /\ cancelled' = [cancelled EXCEPT ![i] = TRUE]
    /\ UNCHANGED <<served, pc, outcome, fetchPool, cssChannel, combinedCSS, collected, built>>
    /\ UNCHANGED <<tokVars, treeVars, cssVars, layoutVars, browserVars, scanVars>>

\* one round of the loop of fetchExternalStylesheets: css := <-cssChannel
ReceiveResult ==
    /\ status = "fetch"
    /\ collected < MaxUrls
    /\ cssChannel # <<>>
    /\ combinedCSS' = IF Head(cssChannel) # <<>>
                      THEN combinedCSS \o Head(cssChannel) \o <<"\n">>
                      ELSE combinedCSS
    /\ cssChannel' = Tail(cssChannel)
    /\ collected' = collected + 1
    /\ UNCHANGED <<served, pc, cancelled, outcome, fetchPool, built>>
    /\ UNCHANGED <<tokVars, treeVars, cssVars, layoutVars, browserVars, scanVars>>

\* fetchExternalStylesheets returns combinedCSS, parseCSS returns nil and
\* Build returns the document
BuildReturn ==
    /\ status = "fetch"
    /\ collected = MaxUrls
    /\ built = "no"
    /\ built' = "document"
    /\ UNCHANGED <<served, pc, cancelled, outcome, fetchPool, cssChannel, combinedCSS, collected>>
    /\ UNCHANGED <<tokVars, treeVars, cssVars, layoutVars, browserVars, scanVars>>

\* a step of the goroutine of the i-th URL that the goroutine takes by
\* itself once it can
GoroutineStep(i) ==
    \/ FetchContentCall(i)
    \/ AcquireFetchSlot(i)
    \/ RequestAborted(i)
    \/ ReleaseFetchSlot(i)
    \/ SendResult(i)

FetchNext ==
    \/ \E i \in 1..MaxUrls : GoroutineStep(i)
    \/ \E i \in 1..MaxUrls : ResponseArrives(i)
    \/ \E i \in 1..MaxUrls : ContextDone(i)
    \/ ReceiveResult
    \/ BuildReturn

FetchSpec == FetchInit /\ [][FetchNext]_vars

\* the scheduler runs every goroutine that can take a step; a response
\* need never arrive and a context need never be done
FetchLiveSpec ==
    /\ FetchInit
    /\ [][FetchNext]_vars
    /\ \A i \in 1..MaxUrls : WF_vars(GoroutineStep(i))
    /\ WF_vars(ReceiveResult)
    /\ WF_vars(BuildReturn)

----------------------------------------------------------------------------
(* Claims about the fetch limiter and the stylesheet fetches *)

\* the fetches between the acquisition of a slot and its release
InProgress == { i \in 1..MaxUrls : pc[i] \in {"fetching", "release"} }

\* C17: with more stylesheet URLs than the fetch limiter has slots, never
\* are more fetches between slot acquisition and slot release than there
\* are slots.
C17_AtMostKOutstanding ==
    (status = "fetch" /\ MaxConcurrentConnections < MaxUrls)
        => Cardinality(InProgress) <= MaxConcurrentConnections

\* every slot is taken and one more fetch waits for a slot
C17_Witness ==
    /\ status = "fetch"
    /\ MaxConcurrentConnections < MaxUrls
    /\ Cardinality(InProgress) = MaxConcurrentConnections
    /\ \E i \in 1..MaxUrls : pc[i] = "acquire"

\* C18: a FetchContent call that waits for a slot and whose context is done
\* returns an error in the end; the call that returns the error from the
\* wait leaves the slots as they were, and the number of slots taken is
\* always the number of fetches in progress.
C18_CancelledWaiterFails ==
    /\ [](status = "fetch" => fetchPool = Cardinality(InProgress))
    /\ [][\A i \in 1..MaxUrls :
             (pc[i] = "acquire" /\ pc'[i] = "send") => fetchPool' = fetchPool]_vars
    /\ \A i \in 1..MaxUrls :
           (pc[i] = "acquire" /\ cancelled[i] /\ fetchPool = MaxConcurrentConnections)
               ~> (pc[i] \in {"send", "done"} /\ outcome[i].err)

\* a call that waited with every slot taken has returned the error while
\* the slots are still taken by the fetches in progress
C18_Witness ==
    /\ status = "fetch"
    /\ fetchPool = MaxConcurrentConnections
    /\ Cardinality(InProgress) = MaxConcurrentConnections
    /\ \E i \in 1..MaxUrls :
           /\ pc[i] \in {"send", "done"}
           /\ cancelled[i]
           /\ served[i] = Pending
           /\ outcome[i].err

\* the texts of the fetches that succeeded, one line each, in the order of
\* the URLs from the i-th on
RECURSIVE InDeclarationOrder(_)
InDeclarationOrder(i) ==
    IF i > MaxUrls THEN <<>>
    ELSE (IF ~outcome[i].err /\ outcome[i].content # <<>>
          THEN outcome[i].content \o <<"\n">> ELSE <<>>)
         \o InDeclarationOrder(i + 1)

\* C19: when Build has returned, the combined external CSS is the texts of
\* the fetched stylesheets in the order of their links in the document,
\* whatever order the fetches completed in.
C19_DeclarationOrder ==
    built = "document" => combinedCSS = InDeclarationOrder(1)

\* the fetches that failed
Failed == { i \in 1..MaxUrls : outcome[i].err }

\* C20: a failed fetch contributes nothing to the combined CSS, which is
\* one line for every fetch that succeeded; the loop takes exactly one
\* result for every URL, every goroutine having sent one; and what Build
\* returns is the document.
C20_FailedFetchIsEmpty ==
    /\ status = "fetch"
           => /\ collected + Len(cssChannel) = Cardinality({ i \in 1..MaxUrls : pc[i] = "done" })
              /\ built \in {"no", "document"}
    /\ built = "document"
           => /\ collected = MaxUrls
              /\ cssChannel = <<>>
              /\ \A i \in 1..MaxUrls : pc[i] = "done"
              /\ Len(combinedCSS) = 2 * (MaxUrls - Cardinality(Failed))
              /\ \A i \in 1..MaxUrls :
                     (i \in Failed) <=> ~Contains(combinedCSS, StylesheetText(i)[1])

\* Build has returned the document with one fetch failed and one succeeded
C20_Witness ==
    /\ built = "document"
    /\ Failed # {}
    /\ Failed # 1..MaxUrls
    /\ \E i \in Failed : served[i] = "error"

----------------------------------------------------------------------------
(* cssParser.splitRules on a stylesheet text, and MatchesSelector on a     *)
(* child-combinator selector                                               *)

\* a stylesheet text has at most MaxCssChars characters
MaxCssChars == 5

\* ruleParseState
RuleParseState(braceCount, inString, escapeNext) ==
    [braceCount |-> braceCount, inString |-> inString, escapeNext |-> escapeNext]

\* an updateParseState for which a string ends at the quote it began with;
\* inString is "" outside a string and the opening quote inside one
updateParseStateByQuote(char, st) ==
    Eval(IF char \in {"\"", "'"}
         THEN IF st.inString = "" THEN char
              ELSE IF st.inString = char THEN "" ELSE st.inString
         ELSE st.inString, LAMBDA inString :
        [st EXCEPT !.inString = inString,
                   !.braceCount = IF inString # "" THEN @
                                  ELSE IF char = "{" THEN @ + 1
                                  ELSE IF char = "}" THEN @ - 1
                                  ELSE @])

\* cssParser.updateParseState; inString is "" for false and "\"" for true
updateParseState(char, st) ==
    Eval(IF char \in {"\"", "'"}
         THEN IF st.inString = "" THEN "\"" ELSE ""
         ELSE st.inString, LAMBDA inString :
        [st EXCEPT !.inString = inString,
                   !.braceCount = IF inString # "" THEN @
                                  ELSE IF char = "{" THEN @ + 1
                                  ELSE IF char = "}" THEN @ - 1
                                  ELSE @])

\* cssParser.shouldFinishRule
shouldFinishRule(char, st) == st.inString = "" /\ st.braceCount = 0 /\ char = "}"

\* cssParser.extractRule: the rules with the trimmed current rule added
\* when it is not empty
extractRule(rules, currentRule) ==
    IF TrimSpace(currentRule) # <<>> THEN Append(rules, TrimSpace(currentRule)) ELSE rules

\* cssParser.splitRules, the loop from character i (counted from 1), with
\* shouldSkipChar; byQuote chooses updateParseStateByQuote for
\* updateParseState
RECURSIVE splitLoop(_, _, _, _, _, _)
splitLoop(text, i, st, currentRule, rules, byQuote) ==
    IF i > Len(text) THEN extractRule(rules, currentRule)
    ELSE IF st.escapeNext
    THEN splitLoop(text, i + 1, [st EXCEPT !.escapeNext = FALSE],
                   Append(currentRule, text[i]), rules, byQuote)
    ELSE IF text[i] = "\\"
    THEN splitLoop(text, i + 1, [st EXCEPT !.escapeNext = TRUE],
                   Append(currentRule, text[i]), rules, byQuote)
    ELSE Eval(IF byQuote THEN updateParseStateByQuote(text[i], st)
              ELSE updateParseState(text[i], st), LAMBDA after :
             IF shouldFinishRule(text[i], after)
             THEN splitLoop(text, i + 1, after, <<>>,
                            extractRule(rules, Append(currentRule, text[i])), byQuote)
             ELSE splitLoop(text, i + 1, after, Append(currentRule, text[i]), rules, byQuote))

\* cssParser.splitRules
splitRules(text) ==
    splitLoop(text, 1, RuleParseState(0, "", FALSE), <<>>, <<>>, FALSE)

\* the characters of the stylesheet texts
CssChars == {"a", " ", "{", "}", "\"", "'", "\\"}

CssTexts(n) == UNION { [1..k -> CssChars] : k \in 0..n }

\* <div class="a"><p>x</p><span><p>y</p></span></div>
ChildDocument ==
    AddChild(AddChild(AddChild(AddChild(AddChild(
        << NewElementNode(TagDiv, << <<AttrClass, <<"a">> >> >>), NewElementNode(TagP, <<>>),
           NewTextNode(<<"x">>), NewElementNode(TagSpan, <<>>),
           NewElementNode(TagP, <<>>), NewTextNode(<<"y">>) >>,
        1, 2), 2, 3), 1, 4), 4, 5), 5, 6)

\* the simple selectors on the two sides of the combinator, and the ways
\* of writing the combinator
SimpleSelectors == { TagDiv, TagSpan, TagP, <<".", "a">> }
ChildCombinators == { <<">">>, <<" ", ">", " ">>, <<">", " ">>, <<" ", ">">> }

ChildSelector(parentSelector, combinator, childSelector) ==
    [parent |-> parentSelector, child |-> childSelector,
     text |-> parentSelector \o combinator \o childSelector]

NoSelector == <<>>
NotAsked == "not asked"

ScanInit ==
    /\ status = "scan"
    /\ \/ /\ cssContent \in CssTexts(MaxCssChars)
          /\ asked = NoSelector
          /\ nodes = <<>>
          /\ matched = <<>>
       \/ /\ cssContent = <<>>
          /\ asked \in { ChildSelector(a, c, b) :
                             a \in SimpleSelectors, c \in ChildCombinators,
                             b \in SimpleSelectors }
          /\ nodes = ChildDocument
          /\ matched = [n \in 1..Len(ChildDocument) |-> NotAsked]
    /\ ruleBlocks = <<>>
    /\ content = <<>>
    /\ pos = 0
    /\ current = NUL
    /\ tokens = <<>>
    /\ froms = <<>>
    /\ state = <<>>
    /\ styleTags = <<>>
    /\ metadata = <<>>
    /\ scripts = <<>>
    /\ NoCss
    /\ NoLayout
    /\ NoFetch
    /\ NoBrowser

\* p.splitRules(content)
SplitRulesCall ==
    /\ status = "scan"
    /\ asked = NoSelector
    /\ ruleBlocks' = splitRules(cssContent)
    /\ status' = "split"
    /\ UNCHANGED <<content, pos, current, tokens, froms, treeVars, cssVars, layoutVars,
                   fetchVars, browserVars, cssContent, asked, matched>>

\* m.MatchesSelector(node, selector) for the node n
MatchesSelectorCall(n) ==
    /\ status = "scan"
    /\ asked # NoSelector
    /\ n \in 1..Len(nodes)
    /\ matched[n] = NotAsked
    /\ matched' = [matched EXCEPT ![n] = IF MatchesSelector(nodes, n, asked.text)
                                          THEN "match" ELSE "no match"]
    /\ UNCHANGED <<tokVars, treeVars, cssVars, layoutVars, fetchVars, browserVars,
                   cssContent, ruleBlocks, asked>>

ScanNext ==
    \/ SplitRulesCall
    \/ \E n \in 1..6 : MatchesSelectorCall(n)

ScanSpec == ScanInit /\ [][ScanNext]_vars

\* the blocks of a text whose strings end at the quote they began with
ExpectedBlocks(text) ==
    splitLoop(text, 1, RuleParseState(0, "", FALSE), <<>>, <<>>, TRUE)

\* C23: splitRules ends a block exactly at a closing brace that brings the
\* depth back to zero outside a string, where a string begun with one kind
\* of quote ends at the next unescaped quote of that kind only: braces and
\* quotes of the other kind inside it change nothing.
C23_BlocksEndOutsideStrings ==
    status = "split" => ruleBlocks = ExpectedBlocks(cssContent)

\* C24: a selector "A > B", with or without spaces around the combinator,
\* matches a node exactly when the node matches B and its parent matches A.
C24_ChildCombinator ==
    (status = "scan" /\ asked # NoSelector)
        => \A n \in 1..Len(nodes) :
               matched[n] # NotAsked
                   => (matched[n] = "match"
                           <=> /\ matchesSimpleSelector(nodes, n, asked.child)
                               /\ nodes[n].parent # Nil
                               /\ matchesSimpleSelector(nodes, nodes[n].parent,
                                                        asked.parent))

----------------------------------------------------------------------------
(* The tabs of the engine, their histories and the tab view.  A page and a *)
(* Tab are objects: the index of their record in pages and in tabObjs.     *)

\* the pages allocated on one tab, the Tab objects allocated, the tabs open
\* at once
MaxPages == 4
MaxTabObjs == 6
MaxTabs == 4

\* &page{url: url}
NewPage(url) == [url |-> url, prev |-> Nil, next |-> Nil]

NoDocument == <<>>

NewTabTitle == <<"N", "e", "w", " ", "T", "a", "b">>

\* NewTab
NewTab == [title |-> NewTabTitle, document |-> NoDocument, history |-> Nil, loading |-> FALSE]

\* an addToHistory that links the new page in front of the forward entries
addToHistoryKeepingNext(heap, t, url) ==
    IF t.history = Nil
    THEN [pages |-> Append(heap, NewPage(url)),
          tab |-> [t EXCEPT !.history = Len(heap) + 1]]
    ELSE [pages |-> Append([heap EXCEPT ![t.history].next = Len(heap) + 1],
                           [url |-> url, prev |-> t.history, next |-> heap[t.history].next]),
          tab |-> [t EXCEPT !.history = Len(heap) + 1]]

\* tab.addToHistory: the pages and the tab after it
addToHistory(heap, t, url) ==
    IF t.history = Nil
    THEN [pages |-> Append(heap, NewPage(url)),
          tab |-> [t EXCEPT !.history = Len(heap) + 1]]
    ELSE [pages |-> Append([heap EXCEPT ![t.history].next = Len(heap) + 1],
                           [url |-> url, prev |-> t.history, next |-> Nil]),
          tab |-> [t EXCEPT !.history = Len(heap) + 1]]

\* tab.Navigate
TabNavigate(heap, t, url) ==
    IF TrimSpace(url) = <<>> THEN [pages |-> heap, tab |-> t]
    ELSE Eval(addToHistory(heap, t, url), LAMBDA r :
             [pages |-> r.pages, tab |-> [r.tab EXCEPT !.loading = TRUE]])

CanGoBack(heap, t) == t.history # Nil /\ heap[t.history].prev # Nil

CanGoNext(heap, t) == t.history # Nil /\ heap[t.history].next # Nil

GoBack(heap, t) == IF ~CanGoBack(heap, t) THEN t ELSE [t EXCEPT !.history = heap[t.history].prev]

GoNext(heap, t) == IF ~CanGoNext(heap, t) THEN t ELSE [t EXCEPT !.history = heap[t.history].next]

GetURL(heap, t) == IF t.history = Nil THEN <<>> ELSE heap[t.history].url

\* tab.SetURL: the pages and the tab after it
SetURL(heap, t, url) ==
    IF t.history = Nil
    THEN [pages |-> Append(heap, NewPage(url)), tab |-> [t EXCEPT !.history = Len(heap) + 1]]
    ELSE [pages |-> [heap EXCEPT ![t.history].url = url], tab |-> t]

\* tab.SetDocument; the title of a document is its metadata["title"]
SetDocument(t, doc) ==
    [t EXCEPT !.document = doc,
              !.title = IF doc # NoDocument /\ doc.title # <<>> THEN doc.title ELSE @]

\* engine.GetTab, idx counted from 0: the Tab object, Nil for no tab
GetTab(open, idx) == IF idx < 0 \/ idx >= Len(open) THEN Nil ELSE open[idx + 1]

\* engine.CloseTab, idx counted from 0: e.tabs after it
CloseTab(open, idx) ==
    IF idx < 0 \/ idx >= Len(open) THEN open
    ELSE SubSeq(open, 1, idx) \o SubSeq(open, idx + 2, Len(open))

----------------------------------------------------------------------------
(* HistorySpec: Navigate, GoBack and GoNext on one tab *)

UrlA == <<"h", "t", "t", "p", "s", ":", "/", "/", "a">>
UrlB == <<"h", "t", "t", "p", "s", ":", "/", "/", "b">>

\* the URLs given to tab.Navigate: two sites, the empty URL, a blank URL
HistoryUrls == { UrlA, UrlB, <<>>, <<" ">> }

\* no navigation is in flight and no parser has been made
NoBuild ==
    /\ navs = <<>>
    /\ parsers = <<>>
    /\ htmlParser = 0
    /\ cssParser = <<>>
    /\ navCount = 0

HistoryInit ==
    /\ status = "history"
    /\ tabs = <<1>>
    /\ tabObjs = <<NewTab>>
    /\ pages = <<>>
    /\ currentIdx = 0
    /\ NoBuild
    /\ content = <<>>
    /\ pos = 0
    /\ current = NUL
    /\ tokens = <<>>
    /\ froms = <<>>
    /\ NoTree
    /\ NoCss
    /\ NoLayout
    /\ NoFetch
    /\ NoScan

\* tab.Navigate(url) on the tab
TabNavigateCall(url) ==
    /\ status = "history"
    /\ Len(pages) < MaxPages
    /\ \E r \in {TabNavigate(pages, tabObjs[1], url)} :
           /\ pages' = r.pages
           /\ tabObjs' = [tabObjs EXCEPT ![1] = r.tab]
    /\ UNCHANGED <<tabs, currentIdx, navs, parsers, htmlParser, cssParser, navCount>>
    /\ UNCHANGED <<tokVars, treeVars, cssVars, layoutVars, fetchVars, scanVars>>

\* tab.GoBack()
GoBackCall ==
    /\ status = "history"
    /\ tabObjs' = [tabObjs EXCEPT ![1] = GoBack(pages, tabObjs[1])]
    /\ UNCHANGED <<tabs, pages, currentIdx, navs, parsers, htmlParser, cssParser, navCount>>
    /\ UNCHANGED <<tokVars, treeVars, cssVars, layoutVars, fetchVars, scanVars>>

\* tab.GoNext()
GoNextCall ==
    /\ status = "history"
    /\ tabObjs' = [tabObjs EXCEPT ![1] = GoNext(pages, tabObjs[1])]
    /\ UNCHANGED <<tabs, pages, currentIdx, navs, parsers, htmlParser, cssParser, navCount>>
    /\ UNCHANGED <<tokVars, treeVars, cssVars, layoutVars, fetchVars, scanVars>>

HistoryNext ==
    \/ \E url \in HistoryUrls : TabNavigateCall(url)
    \/ GoBackCall
    \/ GoNextCall

HistorySpec == HistoryInit /\ [][HistoryNext]_vars

\* C26: after any sequence of Navigate, GoBack and GoNext, a Navigate with a
\* URL that is not blank makes that URL current and leaves no forward entry,
\* and one GoBack after it makes the entry current that was current before
\* it, with its URL; a Navigate with a blank URL leaves the current entry,
\* CanGoBack and CanGoNext as they were.
C26_NavigateDropsForward ==
    [][\A url \in HistoryUrls :
          TabNavigateCall(url) =>
              IF TrimSpace(url) # <<>>
              THEN /\ GetURL(pages', tabObjs'[1]) = url
                   /\ ~CanGoNext(pages', tabObjs'[1])
                   /\ tabObjs[1].history # Nil =>
                          /\ CanGoBack(pages', tabObjs'[1])
                          /\ GoBack(pages', tabObjs'[1]).history = tabObjs[1].history
                          /\ GetURL(pages', GoBack(pages', tabObjs'[1]))
                                 = GetURL(pages, tabObjs[1])
              ELSE /\ tabObjs'[1].history = tabObjs[1].history
                   /\ GetURL(pages', tabObjs'[1]) = GetURL(pages, tabObjs[1])
                   /\ CanGoBack(pages', tabObjs'[1]) = CanGoBack(pages, tabObjs[1])
                   /\ CanGoNext(pages', tabObjs'[1]) = CanGoNext(pages, tabObjs[1])]_vars

\* a Navigate after a GoBack has dropped a forward entry: the current page
\* has no next page, and a page that is not the current one has the same
\* previous page
C26_Witness ==
    /\ status = "history"
    /\ tabObjs[1].history # Nil
    /\ pages[tabObjs[1].history].next = Nil
    /\ pages[tabObjs[1].history].prev # Nil
    /\ \E q \in 1..Len(pages) :
           /\ q # tabObjs[1].history
           /\ pages[q].prev = pages[tabObjs[1].history].prev

----------------------------------------------------------------------------
(* TabViewSpec: the clicks the tab view handles in renderTabs and in       *)
(* renderNewTabButton, one click a frame                                   *)

TabViewInit ==
    /\ status = "tabview"
    /\ \E n \in 0..1 :
           /\ tabs = [k \in 1..n |-> k]
           /\ tabObjs = [k \in 1..n |-> NewTab]
    /\ pages = <<>>
    /\ currentIdx = 0
    /\ NoBuild
    /\ content = <<>>
    /\ pos = 0
    /\ current = NUL
    /\ tokens = <<>>
    /\ froms = <<>>
    /\ NoTree
    /\ NoCss
    /\ NoLayout
    /\ NoFetch
    /\ NoScan

\* t.tabButtons[i].Clicked
TabClick(i) ==
    /\ status = "tabview"
    /\ i < Len(tabs)
    /\ currentIdx' = i
    /\ UNCHANGED <<tabs, tabObjs, pages, navs, parsers, htmlParser, cssParser, navCount>>
    /\ UNCHANGED <<tokVars, treeVars, cssVars, layoutVars, fetchVars, scanVars>>

\* t.closeButtons[i].Clicked
CloseClick(i) ==
    /\ status = "tabview"
    /\ i < Len(tabs)
    /\ tabs' = CloseTab(tabs, i)
    /\ currentIdx' = IF currentIdx >= Len(CloseTab(tabs, i))
                     THEN Len(CloseTab(tabs, i)) - 1
                     ELSE currentIdx
    /\ UNCHANGED <<tabObjs, pages, navs, parsers, htmlParser, cssParser, navCount>>
    /\ UNCHANGED <<tokVars, treeVars, cssVars, layoutVars, fetchVars, scanVars>>

\* t.newTabButton.Clicked
NewTabClick ==
    /\ status = "tabview"
    /\ Len(tabs) < MaxTabs
    /\ Len(tabObjs) < MaxTabObjs
    /\ tabObjs' = Append(tabObjs, NewTab)
    /\ tabs' = Append(tabs, Len(tabObjs) + 1)
    /\ currentIdx' = Len(tabs)
    /\ UNCHANGED <<pages, navs, parsers, htmlParser, cssParser, navCount>>
    /\ UNCHANGED <<tokVars, treeVars, cssVars, layoutVars, fetchVars, scanVars>>

TabViewNext ==
    \/ \E i \in 0..(MaxTabs - 1) : TabClick(i)
    \/ \E i \in 0..(MaxTabs - 1) : CloseClick(i)
    \/ NewTabClick

TabViewSpec == TabViewInit /\ [][TabViewNext]_vars

\* C30: after any sequence of tab clicks, new-tab clicks and close clicks,
\* a close click on a tab that is not the active one leaves the active
\* index on the Tab it was on, and whenever a tab is open the active index
\* is at least 0 and less than the number of tabs.
C30_CloseKeepsActiveTab ==
    /\ [](status = "tabview" /\ Len(tabs) > 0 => currentIdx \in 0..(Len(tabs) - 1))
    /\ [][\A i \in 0..(MaxTabs - 1) :
             (CloseClick(i) /\ i # currentIdx /\ GetTab(tabs, currentIdx) # Nil)
                 => GetTab(tabs', currentIdx') = GetTab(tabs, currentIdx)]_vars

----------------------------------------------------------------------------
(* NavigateSpec: navigations from the toolbar.  handleNavigate runs on the  *)
(* UI goroutine and starts one goroutine for each Engine.Navigate; the      *)
(* engine has one documentBuilder, whose htmlParser and cssParser fields    *)
(* every Build assigns and reads.                                           *)

\* the navigations started in one behaviour
MaxNavigations == 2

Https == <<"h", "t", "t", "p", "s", ":", "/", "/">>
SchemeSeparator == <<":", "/", "/">>
SearchPrefix ==
    <<"h", "t", "t", "p", "s", ":", "/", "/", "w", "w", "w", ".", "g", "o", "o", "g", "l", "e",
      ".", "c", "o", "m", "/", "s", "e", "a", "r", "c", "h", "?", "q", "=">>

\* strings.Contains(s, sub)
ContainsText(s, sub) ==
    \E i \in 1..(Len(s) - Len(sub) + 1) : SubSeq(s, i, i + Len(sub) - 1) = sub

\* url.QueryEscape on letters, spaces and slashes
QueryEscape(s) ==
    Flatten([i \in 1..Len(s) |->
                 IF s[i] = " " THEN <<"+">>
                 ELSE IF s[i] = "/" THEN <<"%", "2", "F">>
                 ELSE <<s[i]>>])

\* toolbar.resolveNavigationURL for an input that does not begin with "/"
resolveNavigationURL(input, currentURL) ==
    Eval(TrimSpace(input), LAMBDA trimmed :
        IF ContainsText(trimmed, SchemeSeparator) THEN trimmed
        ELSE IF ~Contains(trimmed, "/") /\ ~Contains(trimmed, " ") THEN Https \o trimmed
        ELSE SearchPrefix \o QueryEscape(trimmed))

\* url.Parse and URL.String on scheme://rest: the scheme in lower case
UrlString(rawURL) ==
    ToLower(Slice(rawURL, 0, Index(rawURL, ":"))) \o Slice(rawURL, Index(rawURL, ":"), Len(rawURL))

\* urlNormalizer.Normalize: the URL and whether an error is returned
Normalize(rawURL) ==
    IF rawURL = <<>> THEN [url |-> <<>>, err |-> TRUE]
    ELSE IF ~ContainsText(rawURL, SchemeSeparator)
    THEN [url |-> UrlString(Https \o rawURL), err |-> FALSE]
    ELSE [url |-> UrlString(rawURL), err |-> FALSE]

\* what FetchContent returns: an error, or the content the server sent
FetchError == [content |-> <<>>, err |-> TRUE]
FetchOk(text) == [content |-> text, err |-> FALSE]

\* the markup a server sends for a URL
Markup(url) == <<"<", "h", "1", ">">> \o url

\* the answers FetchContent can return for a URL
FetchAnswers(url) == { FetchError, FetchOk(<<>>), FetchOk(Markup(url)) }

\* NewHTMLParser(content)
NewHTMLParser(text) == [content |-> text]

\* what a parser gives is named by the content it was made with:
\* htmlParser.Parse, GetMetadata, GetStyleTags, and the title in the metadata
ParsedRoot(parser) == [part |-> "tree", from |-> parser.content]
GetMetadata(parser) == [part |-> "metadata", from |-> parser.content]
GetStyleTags(parser) == [part |-> "style tags", from |-> parser.content]
MetadataTitle(meta) == <<"t", "i", "t", "l", "e", " ">> \o meta.from

\* NewCSSParser(defaultCSS + "\n" + styleContent + "\n" + externalCSS) and
\* cssParser.Parse
NewCSSParser(styleContent) == [content |-> styleContent]
ParsedStylesheet(parser) == [part |-> "stylesheet", from |-> parser.content.from]

\* a navigation when handleNavigate has started its goroutine
NewNavigation(idx, url, previous, entries) ==
    [tab |-> idx, url |-> url, normalized |-> <<>>, pc |-> "navigate", result |-> "",
     fetch |-> "", content |-> <<>>, root |-> <<>>, metadata |-> <<>>,
     styleContent |-> <<>>, stylesheet |-> <<>>,
     previous |-> previous, entriesBefore |-> entries]

\* a fetchContentForTab that builds the document from the body of a failed
\* fetch
buildAfterFailedFetch(nav, answer) ==
    IF answer.content = <<>> /\ ~answer.err
    THEN [nav EXCEPT !.fetch = "ok", !.result = "error", !.pc = "returned"]
    ELSE [nav EXCEPT !.fetch = IF answer.err THEN "failed" ELSE "ok",
                     !.content = IF answer.err THEN Markup(nav.normalized) ELSE answer.content,
                     !.pc = "newHTMLParser"]

\* engine.fetchContentForTab from the return of FetchContent to the first
\* statement of parseHTML: the navigation after it
afterFetchContent(nav, answer) ==
    IF answer.err
    THEN [nav EXCEPT !.fetch = "failed", !.result = "error", !.pc = "returned"]
    ELSE IF answer.content = <<>>
    THEN [nav EXCEPT !.fetch = "ok", !.result = "error", !.pc = "returned"]
    ELSE [nav EXCEPT !.fetch = "ok", !.content = answer.content, !.pc = "newHTMLParser"]

\* the text the user has typed in the URL editor
ToolbarInputs == { UrlA, <<"b">>, <<>> }

NavigateInit ==
    /\ status = "navigate"
    /\ tabs = <<1>>
    /\ tabObjs = <<NewTab>>
    /\ pages = <<>>
    /\ currentIdx = 0
    /\ NoBuild
    /\ content = <<>>
    /\ pos = 0
    /\ current = NUL
    /\ tokens = <<>>
    /\ froms = <<>>
    /\ NoTree
    /\ NoCss
    /\ NoLayout
    /\ NoFetch
    /\ NoScan

\* the navigations whose goroutine has not returned
InFlight == { i \in 1..Len(navs) : navs[i].pc # "returned" }

\* toolbar.handleNavigate(idx) with the text input in the URL editor
HandleNavigate(idx, input) ==
    /\ status = "navigate"
    /\ navCount < MaxNavigations
    /\ navCount' = navCount + 1
    /\ IF input = <<>>
       THEN UNCHANGED <<tabs, tabObjs, pages, navs>>
       ELSE \E open \in { IF GetTab(tabs, idx) = Nil THEN Append(tabs, Len(tabObjs) + 1) ELSE tabs },
               objs \in { IF GetTab(tabs, idx) = Nil THEN Append(tabObjs, NewTab) ELSE tabObjs } :
               \E t \in { IF GetTab(tabs, idx) = Nil THEN Len(tabObjs) + 1 ELSE GetTab(tabs, idx) },
                  currTabIdx \in { IF GetTab(tabs, idx) = Nil THEN Len(tabs) ELSE idx } :
               \E url \in { resolveNavigationURL(input, GetURL(pages, objs[t])) } :
               \E r \in { TabNavigate(pages, objs[t], url) } :
                   /\ tabs' = open
                   /\ tabObjs' = [objs EXCEPT ![t] = r.tab]
                   /\ pages' = r.pages
                   /\ navs' = Append(navs, NewNavigation(currTabIdx, url,
                                                         GetURL(pages, objs[t]), Len(pages)))
    /\ UNCHANGED <<currentIdx, parsers, htmlParser, cssParser>>
    /\ UNCHANGED <<tokVars, treeVars, cssVars, layoutVars, fetchVars, scanVars>>

\* engine.Navigate up to the call of fetchContentForTab
EngineNavigate(i) ==
    /\ status = "navigate"
    /\ i \in 1..Len(navs)
    /\ navs[i].pc = "navigate"
    /\ \E t \in { GetTab(tabs, navs[i].tab) }, normalized \in { Normalize(navs[i].url) } :
           IF t = Nil \/ normalized.err
           THEN /\ navs' = [navs EXCEPT ![i].result = "error", ![i].pc = "returned"]
                /\ UNCHANGED <<tabObjs, pages>>
           ELSE \E r \in { TabNavigate(pages, tabObjs[t], normalized.url) } :
                    /\ tabObjs' = [tabObjs EXCEPT ![t] = r.tab]
                    /\ pages' = r.pages
                    /\ navs' = [navs EXCEPT ![i].normalized = normalized.url, ![i].pc = "fetch"]
    /\ UNCHANGED <<tabs, currentIdx, parsers, htmlParser, cssParser, navCount>>
    /\ UNCHANGED <<tokVars, treeVars, cssVars, layoutVars, fetchVars, scanVars>>

\* e.apiHandler.FetchContent returns answer; Build returns an error for an
\* empty content
FetchReturns(i, answer) ==
    /\ status = "navigate"
    /\ i \in 1..Len(navs)
    /\ navs[i].pc = "fetch"
    /\ answer \in FetchAnswers(navs[i].normalized)
    /\ navs' = [navs EXCEPT ![i] = afterFetchContent(navs[i], answer)]
    /\ UNCHANGED <<tabs, tabObjs, pages, currentIdx, parsers, htmlParser, cssParser, navCount>>
    /\ UNCHANGED <<tokVars, treeVars, cssVars, layoutVars, fetchVars, scanVars>>

\* parseHTML: db.htmlParser = NewHTMLParser(content)
AssignHTMLParser(i) ==
    /\ status = "navigate"
    /\ i \in 1..Len(navs)
    /\ navs[i].pc = "newHTMLParser"
    /\ parsers' = Append(parsers, NewHTMLParser(navs[i].content))
    /\ htmlParser' = Len(parsers) + 1
    /\ navs' = [navs EXCEPT ![i].pc = "parse"]
    /\ UNCHANGED <<tabs, tabObjs, pages, currentIdx, cssParser, navCount>>
    /\ UNCHANGED <<tokVars, treeVars, cssVars, layoutVars, fetchVars, scanVars>>

\* parseHTML: root, err := db.htmlParser.Parse(); doc.root = root
ParseHTML(i) ==
    /\ status = "navigate"
    /\ i \in 1..Len(navs)
    /\ navs[i].pc = "parse"
    /\ navs' = [navs EXCEPT ![i].root = ParsedRoot(parsers[htmlParser]), ![i].pc = "metadata"]
    /\ UNCHANGED <<tabs, tabObjs, pages, currentIdx, parsers, htmlParser, cssParser, navCount>>
    /\ UNCHANGED <<tokVars, treeVars, cssVars, layoutVars, fetchVars, scanVars>>

\* parseHTML: doc.metadata = db.htmlParser.GetMetadata()
ReadMetadata(i) ==
    /\ status = "navigate"
    /\ i \in 1..Len(navs)
    /\ navs[i].pc = "metadata"
    /\ navs' = [navs EXCEPT ![i].metadata = GetMetadata(parsers[htmlParser]),
                            ![i].pc = "styleTags"]
    /\ UNCHANGED <<tabs, tabObjs, pages, currentIdx, parsers, htmlParser, cssParser, navCount>>
    /\ UNCHANGED <<tokVars, treeVars, cssVars, layoutVars, fetchVars, scanVars>>

\* parseCSS: styleContent := db.htmlParser.GetStyleTags()
ReadStyleTags(i) ==
    /\ status = "navigate"
    /\ i \in 1..Len(navs)
    /\ navs[i].pc = "styleTags"
    /\ navs' = [navs EXCEPT ![i].styleContent = GetStyleTags(parsers[htmlParser]),
                            ![i].pc = "newCSSParser"]
    /\ UNCHANGED <<tabs, tabObjs, pages, currentIdx, parsers, htmlParser, cssParser, navCount>>
    /\ UNCHANGED <<tokVars, treeVars, cssVars, layoutVars, fetchVars, scanVars>>

\* parseCSS: db.cssParser = NewCSSParser(fullCSS)
AssignCSSParser(i) ==
    /\ status = "navigate"
    /\ i \in 1..Len(navs)
    /\ navs[i].pc = "newCSSParser"
    /\ cssParser' = NewCSSParser(navs[i].styleContent)
    /\ navs' = [navs EXCEPT ![i].pc = "parseCSS"]
    /\ UNCHANGED <<tabs, tabObjs, pages, currentIdx, parsers, htmlParser, navCount>>
    /\ UNCHANGED <<tokVars, treeVars, cssVars, layoutVars, fetchVars, scanVars>>

\* parseCSS: css := db.cssParser.Parse(); doc.stylesheet = css
ParseCSS(i) ==
    /\ status = "navigate"
    /\ i \in 1..Len(navs)
    /\ navs[i].pc = "parseCSS"
    /\ navs' = [navs EXCEPT ![i].stylesheet = ParsedStylesheet(cssParser), ![i].pc = "install"]
    /\ UNCHANGED <<tabs, tabObjs, pages, currentIdx, parsers, htmlParser, cssParser, navCount>>
    /\ UNCHANGED <<tokVars, treeVars, cssVars, layoutVars, fetchVars, scanVars>>

\* the document Build returns to fetchContentForTab
BuiltDocument(nav) ==
    [content |-> nav.content, root |-> nav.root, metadata |-> nav.metadata,
     stylesheet |-> nav.stylesheet, title |-> MetadataTitle(nav.metadata)]

\* fetchContentForTab: tab.SetURL(normalizedURL); tab.SetDocument(doc);
\* return nil
InstallDocument(i) ==
    /\ status = "navigate"
    /\ i \in 1..Len(navs)
    /\ navs[i].pc = "install"
    /\ \E t \in { GetTab(tabs, navs[i].tab) } :
       \E r \in { SetURL(pages, tabObjs[t], navs[i].normalized) } :
           /\ pages' = r.pages
           /\ tabObjs' = [tabObjs EXCEPT ![t] = SetDocument(r.tab, BuiltDocument(navs[i]))]
    /\ navs' = [navs EXCEPT ![i].result = "ok", ![i].pc = "returned"]
    /\ UNCHANGED <<tabs, currentIdx, parsers, htmlParser, cssParser, navCount>>
    /\ UNCHANGED <<tokVars, treeVars, cssVars, layoutVars, fetchVars, scanVars>>

NavigateNext ==
    \/ \E idx \in 0..1, input \in ToolbarInputs : HandleNavigate(idx, input)
    \/ \E i \in 1..MaxNavigations : EngineNavigate(i)
    \/ \E i \in 1..MaxNavigations :
           \E answer \in UNION { FetchAnswers(u) : u \in {UrlA, UrlB} } : FetchReturns(i, answer)
    \/ \E i \in 1..MaxNavigations : AssignHTMLParser(i)
    \/ \E i \in 1..MaxNavigations : ParseHTML(i)
    \/ \E i \in 1..MaxNavigations : ReadMetadata(i)
    \/ \E i \in 1..MaxNavigations : ReadStyleTags(i)
    \/ \E i \in 1..MaxNavigations : AssignCSSParser(i)
    \/ \E i \in 1..MaxNavigations : ParseCSS(i)
    \/ \E i \in 1..MaxNavigations : InstallDocument(i)

NavigateSpec == NavigateInit /\ [][NavigateNext]_vars

\* handleNavigate when the goroutine of every earlier navigation has returned
HandleNavigateAlone(idx, input) == InFlight = {} /\ HandleNavigate(idx, input)

\* ToolbarSpec: the navigations run one after the other
ToolbarNext ==
    \/ \E idx \in 0..1, input \in ToolbarInputs : HandleNavigateAlone(idx, input)
    \/ \E i \in 1..MaxNavigations : EngineNavigate(i)
    \/ \E i \in 1..MaxNavigations :
           \E answer \in UNION { FetchAnswers(u) : u \in {UrlA, UrlB} } : FetchReturns(i, answer)
    \/ \E i \in 1..MaxNavigations : AssignHTMLParser(i)
    \/ \E i \in 1..MaxNavigations : ParseHTML(i)
    \/ \E i \in 1..MaxNavigations : ReadMetadata(i)
    \/ \E i \in 1..MaxNavigations : ReadStyleTags(i)
    \/ \E i \in 1..MaxNavigations : AssignCSSParser(i)
    \/ \E i \in 1..MaxNavigations : ParseCSS(i)
    \/ \E i \in 1..MaxNavigations : InstallDocument(i)

ToolbarSpec == NavigateInit /\ [][ToolbarNext]_vars

\* the documents of the Tab objects
Documents == [t \in 1..Len(tabObjs) |-> tabObjs[t].document]

\* C21: when FetchContent returns an error, Engine.Navigate returns an
\* error with that step and no tab's Document changes; a navigation whose
\* fetch has failed has returned an error, and that is the last step it took.
C21_FetchFailureKeepsDocument ==
    /\ [](status = "navigate"
            => \A i \in 1..Len(navs) :
                   navs[i].fetch = "failed"
                       => navs[i].pc = "returned" /\ navs[i].result = "error")
    /\ [][\A i \in 1..MaxNavigations :
             (FetchReturns(i, FetchError) \/ (i \in 1..Len(navs) /\ navs[i].fetch = "failed"
                                              /\ navs'[i] # navs[i]))
                 => /\ navs'[i].result = "error"
                    /\ navs'[i].pc = "returned"
                    /\ Documents' = Documents]_vars

\* a navigation on a tab that has a document has returned after its fetch
\* failed
C21_Witness ==
    /\ status = "navigate"
    /\ \E i \in 1..Len(navs) :
           /\ navs[i].fetch = "failed"
           /\ navs[i].pc = "returned"
           /\ tabObjs[GetTab(tabs, navs[i].tab)].document # NoDocument

\* C22: when the navigations are on different tabs, the Document a tab has
\* is made from the markup fetched for it: its tree, its metadata and its
\* stylesheet all come from the content Build was called with.
C22_BuildsAreIsolated ==
    (status = "navigate"
        /\ \A i, j \in 1..Len(navs) : i # j => navs[i].tab # navs[j].tab)
        => \A t \in 1..Len(tabObjs) :
               tabObjs[t].document # NoDocument
                   => /\ tabObjs[t].document.root.from = tabObjs[t].document.content
                      /\ tabObjs[t].document.metadata.from = tabObjs[t].document.content
                      /\ tabObjs[t].document.stylesheet.from = tabObjs[t].document.content

\* C29: when the latest navigation from the toolbar has installed its
\* document on a tab that had a current URL, it has added one entry to the
\* history, and one GoBack makes the URL current that was current before it.
C29_OneHistoryEntry ==
    status = "navigate"
        => \A i \in 1..Len(navs) :
               (/\ i = Len(navs)
                /\ navs[i].pc = "returned"
                /\ navs[i].result = "ok"
                /\ navs[i].previous # <<>>)
                   => /\ Len(pages) = navs[i].entriesBefore + 1
                      /\ GetURL(pages, GoBack(pages, tabObjs[GetTab(tabs, navs[i].tab)]))
                             = navs[i].previous

----------------------------------------------------------------------------
(* BoxSpec: Layout calls on documents with a div or a pre element, at      *)
(* widths that make the text wrap                                          *)

\* <html><tag>text</tag><p>cd</p></html>
BoxDocument(tag, text) ==
    AddChild(AddChild(AddChild(AddChild(
        << NewElementNode(TagHtml, <<>>), NewElementNode(tag, <<>>), NewTextNode(text),
           NewElementNode(TagP, <<>>), NewTextNode(<<"c", "d">>) >>,
        1, 2), 2, 3), 1, 4), 4, 5)

BoxTags == { TagDiv, TagPre }

BoxTexts ==
    { <<"a", "b">>,
      <<"a", "b", "c", " ", "d", "e", "f", " ", "g", "h">>,
      <<"a", "\n", "b">> }

BoxInputs ==
    { StyledDocument(BoxDocument(tag, text), 2, s) :
        tag \in BoxTags, text \in BoxTexts, s \in LayoutStyles }

\* the widths of the window, in hundredths of a pixel
BoxWidths == {5000, 20000}

BoxInit ==
    /\ \E d \in BoxInputs : nodes = d.nodes /\ computed = d.styles
    /\ status = "layout"
    /\ content = <<>>
    /\ pos = 0
    /\ current = NUL
    /\ tokens = <<>>
    /\ froms = <<>>
    /\ state = <<>>
    /\ styleTags = <<>>
    /\ metadata = <<>>
    /\ scripts = <<>>
    /\ selectorParts = <<>>
    /\ specificity = <<>>
    /\ selectorCache = <<>>
    /\ css = <<>>
    /\ NoLayout
    /\ NoFetch
    /\ NoBrowser
    /\ NoScan

BoxNext == \E width \in BoxWidths, height \in LayoutHeights : LayoutCall(width, height)

BoxSpec == BoxInit /\ [][BoxNext]_vars

\* the layout nodes of the tree below l, l among them
RECURSIVE LayoutNodes(_)
LayoutNodes(l) ==
    IF l.type \in {"Document", "Block", "Preformatted"}
    THEN {l} \cup UNION { LayoutNodes(l.children[k]) : k \in 1..Len(l.children) }
    ELSE IF l.type = "Nil" THEN {} ELSE {l}

RECURSIVE SumHeights(_, _)
SumHeights(children, k) ==
    IF k > Len(children) THEN 0
    ELSE children[k].bounds.Height + SumHeights(children, k + 1)

\* C25: after a Layout call, the height of every Block box and of every
\* Preformatted box is the sum of the heights of its children plus its top
\* and bottom padding plus its top and bottom margin.
C25_BoxHeight ==
    status \in {"laidout", "relaid"}
        => \A l \in LayoutNodes(layoutRoot) :
               l.type \in {"Block", "Preformatted"}
                   => l.bounds.Height = SumHeights(l.children, 1)
                                        + l.padding.top + l.padding.bottom
                                        + l.margin.top + l.margin.bottom

\* the text commands Paint has emitted for the layout node l
LinesPainted(l) ==
    { i \in 1..Len(displayList.commands) :
        displayList.commands[i].kind = "text" /\ displayList.commands[i].node = l.node }

\* C28: after a Layout call, the height of every inline box whose text is
\* not preformatted is at least the number of text lines painted for it
\* times its line height, and no line painted for it ends below its box.
C28_InlineHeightCoversLines ==
    status \in {"laidout", "relaid"}
        => \A l \in LayoutNodes(layoutRoot) :
               (l.type = "Inline" /\ ~isPreformattedText(l.style))
                   => /\ l.bounds.Height >= Cardinality(LinesPainted(l)) * l.metrics.LineHeight
                      /\ \A i \in LinesPainted(l) :
                             displayList.commands[i].y + l.metrics.LineHeight
                                 <= l.bounds.Y + l.bounds.Height

----------------------------------------------------------------------------
(* OrderSpec: ComputeStyle over a stylesheet of at most MaxOrderRules      *)
(* rules, some of them with the same selector                              *)

MaxOrderRules == 3

OrderRules ==
    { CSSRule(<<<<".", "a">>>>, <<CSSDeclaration(PropColor, Red, FALSE)>>),
      CSSRule(<<<<".", "a">>>>, <<CSSDeclaration(PropColor, Blue, FALSE)>>),
      CSSRule(<<<<"p">>>>, <<CSSDeclaration(PropColor, Green, FALSE)>>),
      CSSRule(<<<<"#", "b">>>>, <<CSSDeclaration(PropMarginTop, <<"8", "p", "x">>, FALSE)>>) }

OrderInit ==
    /\ nodes \in { CascadeDocument(<<>>, named) : named \in BOOLEAN }
    /\ css \in UNION { [1..k -> OrderRules] : k \in 0..MaxOrderRules }
    /\ computed = [n \in 1..3 |-> NotStyled]
    /\ selectorCache = <<>>
    /\ selectorParts = <<>>
    /\ specificity = <<>>
    /\ content = <<>>
    /\ pos = 0
    /\ current = NUL
    /\ status = "cascade"
    /\ tokens = <<>>
    /\ froms = <<>>
    /\ state = <<>>
    /\ styleTags = <<>>
    /\ metadata = <<>>
    /\ scripts = <<>>
    /\ NoLayout
    /\ NoFetch
    /\ NoBrowser
    /\ NoScan

OrderNext == ComputeStyleCall

OrderSpec == OrderInit /\ [][OrderNext]_vars

\* the specificity findRuleMatch records for rule i on node n, by which
\* sortMatchesBySpecificity sorts
SortKey(n, i) ==
    calculateSelectorSpecificity(css[i].Selectors[firstMatch(nodes, n, css[i])])

\* C27: when two author rules that match a node and set the same property
\* have equal specificity, and every other matching rule that sets the
\* property has a lower one, the computed value is the one of the later of
\* the two in the stylesheet.
C27_LaterRuleWins ==
    \A n \in 1..Len(nodes) : \A prop \in CascadeProps :
        (/\ status = "cascade"
         /\ computed[n] # NotStyled
         /\ nodes[n].type = "Element"
         /\ InlineValue(n, prop) = <<>>)
            => \A i, j \in Declaring(n, prop) :
                   (/\ i < j
                    /\ SortKey(n, i) = SortKey(n, j)
                    /\ MatchSpecificity(n, i) = MatchSpecificity(n, j)
                    /\ \A k \in Declaring(n, prop) \ {i, j} :
                           /\ SortKey(n, k) < SortKey(n, i)
                           /\ MatchSpecificity(n, k) < MatchSpecificity(n, i)
                    /\ \A k \in Declaring(n, prop) :
                           /\ ~MapGet(css[k].Declarations, prop).Important
                           /\ ~IsRelative(MapGet(css[k].Declarations, prop).Raw))
                       => MapGet(computed[n], prop) = MapGet(css[j].Declarations, prop).Raw

====
